---- MODULE Spec2Model ----
(***************************************************************************)
(* Virtual-memory core of the k23 kernel: the frame allocator contract     *)
(* (libs/vmm/src/alloc), the TLB flush batch (libs/vmm/src/flush.rs), the  *)
(* kernel heap's out-of-memory handler (kernel/src/allocator.rs) and the   *)
(* user memory mapping handle (kernel/src/vm/user_mmap.rs).                *)
(*                                                                         *)
(* Each component has its own specification (SpecFrames, SpecHeap,         *)
(* SpecFlush, SpecMmap); a specification leaves the variables of the       *)
(* components it does not exercise unchanged.                              *)
(***************************************************************************)
EXTENDS Integers, Sequences, FiniteSets, TLC

\* ------------------------------------------------------------------------
\* Program constants
\* ------------------------------------------------------------------------

\* libs/vmm/src/arch/riscv64.rs: const PAGE_SIZE: usize = 4096
PAGE_SIZE == 4096
\* libs/vmm/src/arch/riscv64.rs: const PAGE_TABLE_ENTRIES: usize = 512
PAGE_TABLE_ENTRIES == 512
\* libs/vmm/src/arch/riscv64.rs: Riscv64Sv39::PAGE_TABLE_LEVELS = 3
PAGE_TABLE_LEVELS == 3

\* ------------------------------------------------------------------------
\* Bounds of the model
\* ------------------------------------------------------------------------

\* Frames managed by the allocator in SpecFrames.
TotalFrames == 5
\* Largest request of allocate_frames in SpecFrames.
MaxAllocFrames == 3
\* SpecFlush: ranges lie in the pages 0..MaxFlushPage, address-space ids are
\* 0..MaxAsid, and at most MaxFences invalidation requests are issued.
MaxFlushPage == 3
MaxAsid == 1
MaxFences == 1
\* SpecFlush: at most MaxTouched ranges are recorded into one batch.
MaxTouched == 3
\* The machine has the harts 0..MaxHart.
MaxHart == 1
\* SpecHeap: the range given to init starts at page HeapStartPage and holds
\* 1..MaxHeapPages pages; the machine has k * PAGE_SIZE frames, k in
\* 1..MaxFrameK; handle_oom is asked for layouts of up to MaxLayoutPages pages.
HeapStartPage == 16
MaxHeapPages == 5
MaxFrameK == 5
MaxLayoutPages == 3
\* SpecMmap: the user address space spans the pages UserStartPage ..
\* UserStartPage + UserPages - 1, has address-space id UserAsid, and the
\* machine has MmapFrames frames; at most MaxMmaps handles exist at a time.
UserStartPage == 2
UserPages == 2
UserAsid == 1
MmapFrames == 4
MaxTaken == 1
MaxMmaps == 2
\* SpecLocks: the CPUs 0..MaxCpu run the kernel's locking paths.
MaxCpu == 1
\* SpecWaker: the threads 0..MaxThread make at most MaxCalls calls of
\* register and wake on one AtomicWaker.
MaxThread == 2
MaxCalls == 4

\* SpecPanic: the CPUs begin or resume at most MaxPanics panics; usize is
\* UsizeBits bits wide (64 on the target, scaled down).
MaxPanics == 3
UsizeBits == 3

\* SpecDtors: at most MaxDtors pairs are registered, before or during run.
MaxDtors == 4

\* SpecEntry: the entries have the bits 0..MaxEntryBits: the eight flags and
\* one bit above them.
MaxEntryBits == 511

\* ------------------------------------------------------------------------
\* State
\* ------------------------------------------------------------------------

VARIABLES
    fa_used,     \* frame allocator: the bitmap, as its runs [lo, hi) of set bits
    fa_total,    \* frame allocator: number of frames it manages
    fa_live,     \* the allocations callers hold: <<[base, frames], ...>>
    fa_result,   \* what the last direct call of the frame allocator returned
    fl_state,    \* Flush batch: "none" (no batch), "open", "consumed"
    fl_asid,     \* Flush.asid
    fl_range,    \* Flush.range: <<>> for None, <<[start, end]>> for Some(start..end)
    fl_touched,  \* the ranges recorded into the batch since it was created
    fl_result,   \* what the last Flush call was given and returned
    stale,       \* TLB entries [hart, asid, page] cached before a recorded mutation changed them
    fences,      \* the remote-fence requests issued so far, in order
    heap_pc,     \* kernel heap: "uninit", "ready", "init_failed", "panicked"
    heap,        \* OomHandler.heap: the committed span [base, acme)
    heap_max,    \* OomHandler.max: the ceiling
    claimed,     \* the span the underlying talc allocator has been handed
    kpt,         \* kernel page table: virtual page -> [phys, flags] leaf entry
    ktables,     \* kernel page table: the intermediate tables that exist
    oom,         \* what the last init/handle_oom call computed and returned
    regions,     \* user AddressSpace.regions, ordered: <<[start, end, perms, set_by], ...>>
    upt,         \* user page table: virtual page -> [phys, flags] leaf entry
    utables,     \* user page table: the intermediate tables that exist
    mmaps,       \* the UserMmap handles held: <<[start, end], ...>>
    mm_result,   \* what the last user-memory call was given and returned
    trap_result, \* the trap handle_page_fault was last given and what it returned
    nonzero,     \* the frames whose contents are not known to be all zero
    before,      \* regions and frame usage as they were when the last call, a map, began
    copy_result, \* what the last copy_from/copy_to_userspace was given and returned
    cpu_path,    \* per CPU: the kernel path it is running, "idle" if none
    cpu_pc,      \* per CPU: the index of the next step of its path
    owner,       \* per lock: the CPU that holds it, -1 if it is free
    held,        \* per CPU: the locks it holds, in the order it acquired them
    last,        \* the step taken last: [cpu, op, asid]
    unflushed,   \* per address space: the CPUs that mutated it and have not flushed yet
    w_state,     \* AtomicWaker.state
    w_cell,      \* AtomicWaker.waker: <<>> for None, <<c>> for the waker of register call c
    w_pc,        \* per thread: where it is in register or wake, "idle" between calls
    w_loc,       \* per thread: the locals of its call
    w_locked,    \* per thread: it moved state out of WAITING and has not released it
    w_next,      \* the number the next call gets
    w_regs,      \* the calls that are register calls
    w_woken,     \* per call: how often its waker was woken
    w_replaced,  \* the register calls whose waker a later register took out of the cell
    w_returned,  \* the register call that returned last having registered, 0 if none
    w_owed,      \* the register calls after whose return a wake call started
    e_bits,      \* a page-table entry: Entry.bits
    e_leaf,      \* per Mode: what entry_is_leaf returned for the entry, "none" before the call
    p_global,    \* GLOBAL_PANIC_COUNT
    p_local,     \* per CPU: LOCAL_PANIC_COUNT, [count, in_hook]
    p_pc,        \* per CPU: "run", "hook" (in begin_panic_handler after increase), "aborted"
    p_depth,     \* per CPU: the panics that are unwinding and not caught yet
    p_begun,     \* the panics begun and payloads resumed so far
    p_query,     \* the CPU that called panicking() last and what it was told
    d_list,      \* DTORS: the registered pairs, oldest first, each named by its number
    d_borrowed,  \* DTORS is mutably borrowed
    d_pc,        \* destructors::run: "idle", "loop", "pop", "call", "done", "aborted"
    d_ran,       \* the pairs whose destructor was invoked, in order
    d_next,      \* the number the next registered pair gets
    d_aborted,   \* register or borrow_mut found DTORS borrowed
    active       \* the asid of the address space active on the CPU that makes the user-memory calls

faVars == <<fa_used, fa_total, fa_live, fa_result>>
flVars == <<fl_state, fl_asid, fl_range, fl_touched, fl_result, stale>>
heapVars == <<heap_pc, heap, heap_max, claimed, kpt, ktables, oom>>

mmVars == <<regions, upt, utables, mmaps, mm_result, trap_result, nonzero, before, copy_result>>

lkVars == <<cpu_path, cpu_pc, owner, held, last, unflushed>>

wkVars == <<w_state, w_cell, w_pc, w_loc, w_locked, w_next, w_regs, w_woken, w_replaced,
            w_returned, w_owed>>

enVars == <<e_bits, e_leaf>>

\* The state of the components added to the kernel model last.
pnVars == <<p_global, p_local, p_pc, p_depth, p_begun, p_query>>
dtVars == <<d_list, d_borrowed, d_pc, d_ran, d_next, d_aborted>>
exVars == <<enVars, pnVars, dtVars>>

vars == <<faVars, flVars, fences, heapVars, mmVars, lkVars, wkVars, exVars, active>>

\* ------------------------------------------------------------------------
\* Helpers
\* ------------------------------------------------------------------------

Min(S) == CHOOSE x \in S : \A y \in S : x <= y
Max(S) == CHOOSE x \in S : \A y \in S : x >= y

RECURSIVE SumSeq(_)
SumSeq(s) == IF s = <<>> THEN 0 ELSE Head(s) + SumSeq(Tail(s))

\* F(v), with v evaluated once.
Bind(v, F(_)) == CHOOSE y \in {F(x) : x \in {v}} : TRUE

\* A mutation of RemoveAt: nothing is removed.
RemoveAtNothing(s, i) == s

RemoveAt(s, i) == [k \in 1..(Len(s) - 1) |-> IF k < i THEN s[k] ELSE s[k + 1]]

\* ------------------------------------------------------------------------
\* Frame allocator (libs/vmm/src/alloc)
\* ------------------------------------------------------------------------

\* PhysicalAddress of a frame and back: a frame is PAGE_SIZE bytes.
FrameAddr(idx) == idx * PAGE_SIZE
FrameIndex(addr) == addr \div PAGE_SIZE

\* The frames of the allocation [base, base + frames * PAGE_SIZE).
FrameRange(base, frames) == FrameIndex(base)..(FrameIndex(base) + frames - 1)

\* The bitmap (one bit per frame) is kept run-length encoded: the set of its
\* maximal runs [lo, hi) of set bits.
Run(lo, hi) == [lo |-> lo, hi |-> hi]
BitIsSet(runs, f) == \E r \in runs : r.lo <= f /\ f < r.hi
RECURSIVE CountSet(_)
CountSet(runs) ==
    IF runs = {} THEN 0
    ELSE LET r == CHOOSE x \in runs : TRUE IN (r.hi - r.lo) + CountSet(runs \ {r})
\* Sets the bits b .. b + n - 1.
SetBits(runs, b, n) ==
    IF n = 0 THEN runs
    ELSE LET touching == {r \in runs : r.hi >= b /\ r.lo <= b + n}
         IN  (runs \ touching) \cup
             {Run(Min({b} \cup {r.lo : r \in touching}),
                  Max({b + n} \cup {r.hi : r \in touching}))}
\* Clears the bits b .. b + n - 1.
ClearBits(runs, b, n) ==
    {Run(r.lo, IF r.hi < b THEN r.hi ELSE b) : r \in {x \in runs : x.lo < b}}
    \cup {Run(IF r.lo > b + n THEN r.lo ELSE b + n, r.hi) : r \in {x \in runs : x.hi > b + n}}

\* Bitmap strategy, first fit: the lowest run of n clear bits. The lowest
\* such run starts at frame 0 or right after a set bit.
RunStarts(runs) == {0} \cup {r.hi : r \in runs}
RunFits(runs, total, b, n) ==
    /\ b + n <= total
    /\ ~BitIsSet(runs, b)
    /\ \A r \in runs : r.hi <= b \/ r.lo >= b + n
FirstFit(runs, total, n) ==
    LET c == {b \in RunStarts(runs) : RunFits(runs, total, b, n)}
    IN  IF c = {} THEN -1 ELSE Min(c)

\* allocate_frames(n) of the bitmap strategy: sets the bits of the run and
\* returns its base address, or fails with OutOfMemory and changes nothing.
BitmapAllocate(used, total, n) ==
    LET b == FirstFit(used, total, n)
    IN  IF b = -1
        THEN [ok |-> FALSE, base |-> 0, used |-> used]
        ELSE [ok |-> TRUE, base |-> FrameAddr(b), used |-> SetBits(used, b, n)]

\* deallocate_frames(base, n) of the bitmap strategy: clears the bits.
BitmapDeallocate(used, base, n) == ClearBits(used, FrameIndex(base), n)

\* A mutation of allocate_frame: it takes two frames for the one it returns.
allocate_frame_two(used, total) == BitmapAllocate(used, total, 2)

\* FrameAllocator::allocate_frame: allocate_frames(1).
allocate_frame(used, total) == BitmapAllocate(used, total, 1)

\* A mutation of deallocate_frame: it releases the frame after base as well.
deallocate_frame_two(used, base) == BitmapDeallocate(used, base, 2)

\* FrameAllocator::deallocate_frame: deallocate_frames(base, 1).
deallocate_frame(used, base) == BitmapDeallocate(used, base, 1)

\* FrameAllocator::frame_usage.
frame_usage == [used |-> CountSet(fa_used), total |-> fa_total]

FaIdle ==
    /\ fa_used = {}
    /\ fa_total = 0
    /\ fa_live = <<>>
    /\ fa_result = [op |-> "none", ok |-> TRUE, base |-> 0, frames |-> 0]

\* The frame allocator's part of a successful or failed allocation of n frames
\* whose outcome is r.
FaTake(r, n) ==
    /\ fa_used' = r.used
    /\ fa_live' = IF r.ok THEN Append(fa_live, [base |-> r.base, frames |-> n])
                  ELSE fa_live
    /\ fa_result' = [op |-> "allocate", ok |-> r.ok, base |-> r.base, frames |-> n]
    /\ UNCHANGED fa_total

AllocateFrames(n) == FaTake(BitmapAllocate(fa_used, fa_total, n), n)

AllocateFrame == FaTake(allocate_frame(fa_used, fa_total), 1)

\* A caller returns the allocation it holds at position i.
DeallocateFrames(i) ==
    /\ fa_live[i].frames > 1
    /\ fa_used' = BitmapDeallocate(fa_used, fa_live[i].base, fa_live[i].frames)
    /\ fa_live' = RemoveAt(fa_live, i)
    /\ fa_result' = [op |-> "deallocate", ok |-> TRUE, base |-> fa_live[i].base,
                     frames |-> fa_live[i].frames]
    /\ UNCHANGED fa_total

DeallocateFrame(i) ==
    /\ fa_live[i].frames = 1
    /\ fa_used' = deallocate_frame(fa_used, fa_live[i].base)
    /\ fa_live' = RemoveAt(fa_live, i)
    /\ fa_result' = [op |-> "deallocate", ok |-> TRUE, base |-> fa_live[i].base,
                     frames |-> 1]
    /\ UNCHANGED fa_total

\* ------------------------------------------------------------------------
\* Flush: the TLB invalidation batch (libs/vmm/src/flush.rs)
\* ------------------------------------------------------------------------

\* Option<Range<VirtualAddress>>
None == <<>>
Some(r) == <<r>>
IsSome(o) == o # <<>>
Unwrap(o) == o[1]
Range(start, end) == [start |-> start, end |-> end]

\* hart_mask_base = usize::MAX in sbicall::rfence::sfence_vma_asid: all harts
ALL_HARTS == -1

Harts == 0..MaxHart

NoFlushResult ==
    [op |-> "none", ok |-> TRUE, err |-> None, asid |-> 0, other |-> None, before |-> None]

FlIdle ==
    /\ fl_state = "none"
    /\ fl_asid = 0
    /\ fl_range = None
    /\ fl_touched = {}
    /\ fl_result = NoFlushResult
    /\ stale = {}

\* The TLB entries of the harts hs for the pages of range in address space
\* asid: what those harts had cached when the mutation that is recorded with
\* range changed the translations.
CachedBy(hs, asid, range) ==
    {[hart |-> h, asid |-> asid, page |-> p * PAGE_SIZE] :
        h \in hs, p \in (range.start \div PAGE_SIZE)..((range.end - 1) \div PAGE_SIZE)}

\* Flush::empty(asid)
FlushEmpty(asid) ==
    /\ fl_state # "open"
    /\ Len(fences) < MaxFences
    /\ fl_state' = "open"
    /\ fl_asid' = asid
    /\ fl_range' = None
    /\ fl_touched' = {}
    /\ stale' = {}
    /\ fl_result' = [NoFlushResult EXCEPT !.op = "empty", !.asid = asid]

\* Flush::new(asid, range), for a mutation of range made while the harts hs
\* had its translations cached.
FlushNew(asid, range, hs) ==
    /\ fl_state # "open"
    /\ Len(fences) < MaxFences
    /\ fl_state' = "open"
    /\ fl_asid' = asid
    /\ fl_range' = Some(range)
    /\ fl_touched' = {range}
    /\ stale' = CachedBy(hs, asid, range)
    /\ fl_result' = [NoFlushResult EXCEPT !.op = "new", !.asid = asid, !.other = Some(range)]

\* A mutation of ExtendedRange: the pending range is replaced by other.
ExtendedRangeReplace(this, other) == Some(other)

\* The pending range extend_range stores on a batch with the same asid.
ExtendedRange(this, other) ==
    IF IsSome(this)
    THEN Some(Range(IF Unwrap(this).start <= other.start THEN Unwrap(this).start
                    ELSE other.start,
                    IF Unwrap(this).start >= other.end THEN Unwrap(this).start
                    ELSE other.end))
    ELSE Some(other)

\* A mutation of AsidMatches: any address space is accepted.
AsidMatchesAny(self_asid, asid) == TRUE

\* extend_range: if self.asid == asid
AsidMatches(self_asid, asid) == self_asid = asid

\* Error::AddressSpaceMismatch { expected, found }
AddressSpaceMismatch(expected, found) ==
    [error |-> "AddressSpaceMismatch", expected |-> expected, found |-> found]

\* Flush::extend_range(asid, other), for a mutation of other made while the
\* harts hs had its translations cached.
ExtendRange(asid, other, hs) ==
    /\ fl_state = "open"
    /\ Cardinality(fl_touched) < MaxTouched
    /\ IF AsidMatches(fl_asid, asid)
       THEN /\ fl_range' = ExtendedRange(fl_range, other)
            /\ fl_touched' = fl_touched \cup {other}
            /\ stale' = stale \cup CachedBy(hs, asid, other)
            /\ fl_result' = [op |-> "extend_range", ok |-> TRUE, err |-> None, asid |-> asid,
                             other |-> Some(other), before |-> fl_range]
       ELSE /\ hs = {}
            /\ fl_result' = [op |-> "extend_range", ok |-> FALSE,
                             err |-> Some(AddressSpaceMismatch(fl_asid, asid)),
                             asid |-> asid, other |-> Some(other), before |-> fl_range]
            /\ UNCHANGED <<fl_range, fl_touched, stale>>
    /\ UNCHANGED <<fl_state, fl_asid>>

\* A mutation of InvalidateRequest: the end address is passed as the size.
InvalidateRequestEnd(asid, range) ==
    [hart_mask |-> 0, hart_mask_base |-> ALL_HARTS, base |-> range.start,
     size |-> range.end, asid |-> asid]

\* invalidate_address_range(asid, range): one
\* sfence_vma_asid(0, usize::MAX, base_addr, size, asid) request, with
\* base_addr = range.start and size = range.end - range.start.
InvalidateRequest(asid, range) ==
    [hart_mask |-> 0, hart_mask_base |-> ALL_HARTS, base |-> range.start,
     size |-> range.end - range.start, asid |-> asid]

\* The harts a remote fence request is addressed to: all of them when
\* hart_mask_base is -1, else those whose bit is set in hart_mask, counted
\* from hart_mask_base.
AddressedHarts(req) ==
    IF req.hart_mask_base = ALL_HARTS THEN Harts
    ELSE {h \in Harts : h >= req.hart_mask_base
                        /\ (req.hart_mask \div (2 ^ (h - req.hart_mask_base))) % 2 = 1}

\* What a completed remote fence leaves of the TLB entries tlb: the addressed
\* harts have dropped their entries of req.asid in [base, base + size)
\* before the call returns.
RemoteFence(tlb, req) ==
    {e \in tlb : ~(/\ e.hart \in AddressedHarts(req)
                   /\ e.asid = req.asid
                   /\ req.base <= e.page /\ e.page < req.base + req.size)}

\* A mutation of FlushFlush: a batch without a pending range is an error.
FlushFlushEmptyIsError(sbi_ok) ==
    /\ fl_state = "open"
    /\ fl_state' = "consumed"
    /\ IF IsSome(fl_range)
       THEN /\ fences' = Append(fences, InvalidateRequest(fl_asid, Unwrap(fl_range)))
            /\ stale' = IF sbi_ok
                        THEN RemoteFence(stale, InvalidateRequest(fl_asid, Unwrap(fl_range)))
                        ELSE stale
            /\ fl_result' = [op |-> "flush", ok |-> sbi_ok,
                             err |-> IF sbi_ok THEN None ELSE Some([error |-> "Sbi"]),
                             asid |-> fl_asid, other |-> None, before |-> fl_range]
       ELSE /\ sbi_ok
            /\ fences' = fences
            /\ stale' = stale
            /\ fl_result' = [op |-> "flush", ok |-> FALSE, err |-> Some([error |-> "Empty"]),
                             asid |-> fl_asid, other |-> None, before |-> fl_range]
    /\ UNCHANGED <<fl_asid, fl_range, fl_touched>>

\* Flush::flush(self): consumes the batch; sbi_ok is the firmware's answer to
\* the remote fence.
FlushFlush(sbi_ok) ==
    /\ fl_state = "open"
    /\ fl_state' = "consumed"
    /\ IF IsSome(fl_range)
       THEN /\ fences' = Append(fences, InvalidateRequest(fl_asid, Unwrap(fl_range)))
            /\ stale' = IF sbi_ok
                        THEN RemoteFence(stale, InvalidateRequest(fl_asid, Unwrap(fl_range)))
                        ELSE stale
            /\ fl_result' = [op |-> "flush", ok |-> sbi_ok,
                             err |-> IF sbi_ok THEN None ELSE Some([error |-> "Sbi"]),
                             asid |-> fl_asid, other |-> None, before |-> fl_range]
       ELSE \* log::warn!("attempted to flush empty range, ignoring")
            /\ sbi_ok
            /\ fences' = fences
            /\ stale' = stale
            /\ fl_result' = [op |-> "flush", ok |-> TRUE, err |-> None, asid |-> fl_asid,
                             other |-> None, before |-> fl_range]
    /\ UNCHANGED <<fl_asid, fl_range, fl_touched>>

\* Flush::ignore(self): consumes the batch without invalidating.
FlushIgnore ==
    /\ fl_state = "open"
    /\ fl_state' = "consumed"
    /\ fl_result' = [op |-> "ignore", ok |-> TRUE, err |-> None, asid |-> fl_asid,
                     other |-> None, before |-> fl_range]
    /\ UNCHANGED <<fl_asid, fl_range, fl_touched, stale, fences>>

FlushAddrs == {p * PAGE_SIZE : p \in 0..MaxFlushPage}
FlushRanges == {r \in [start : FlushAddrs, end : FlushAddrs] : r.start < r.end}
Asids == 0..MaxAsid

\* ------------------------------------------------------------------------
\* Mapper (libs/vmm): map_range over a multi-level page table
\* ------------------------------------------------------------------------

\* The table of level l (0 = the tables holding leaf entries) that translates
\* virt; the root table (level PAGE_TABLE_LEVELS - 1) always exists.
RECURSIVE Pow(_, _)
Pow(b, e) == IF e = 0 THEN 1 ELSE b * Pow(b, e - 1)
TableOf(l, virt) == <<l, virt \div (PAGE_SIZE * Pow(PAGE_TABLE_ENTRIES, l + 1))>>

\* The walk to the leaf table of virt, top-down, taking one frame from the
\* frame allocator for every table that is missing. st is the mapper's
\* state: [ok, err, pt, tables, used, total, live, flush, written].
RECURSIVE WalkTables(_, _, _)
WalkTables(s, virt, l) ==
    Bind(s, LAMBDA st :
      IF l < 0 \/ ~st.ok THEN st
      ELSE IF TableOf(l, virt) \in st.tables THEN WalkTables(st, virt, l - 1)
      ELSE Bind(allocate_frame(st.used, st.total), LAMBDA a :
             IF ~a.ok THEN [st EXCEPT !.ok = FALSE, !.err = "OutOfMemory"]
             ELSE WalkTables([st EXCEPT !.used = a.used,
                                        !.live = Append(@, [base |-> a.base, frames |-> 1]),
                                        !.tables = @ \cup {TableOf(l, virt)}],
                             virt, l - 1)))

\* One page of map_range: the leaf entry is written and the page recorded
\* into the flush batch; a page that is already mapped is an error.
MapPage(st, asid, virt, phys, flags) ==
    Bind(WalkTables(st, virt, PAGE_TABLE_LEVELS - 2), LAMBDA w :
        IF ~w.ok THEN w
        ELSE IF virt \in DOMAIN w.pt
        THEN [w EXCEPT !.ok = FALSE, !.err = "AlreadyMapped"]
        ELSE IF w.flush.asid # asid
        THEN [w EXCEPT !.ok = FALSE, !.err = "AddressSpaceMismatch"]
        ELSE [w EXCEPT
                !.pt = [v \in DOMAIN w.pt \cup {virt} |->
                          IF v = virt THEN [phys |-> phys, flags |-> flags \cup {"VALID"}]
                          ELSE w.pt[v]],
                !.flush = [@ EXCEPT !.range =
                             ExtendedRange(@, Range(virt, virt + PAGE_SIZE))],
                !.written = @ \cup {virt}])

RECURSIVE MapPages(_, _, _, _, _, _)
MapPages(s, asid, virt, phys, flags, n) ==
    Bind(s, LAMBDA st :
      IF n = 0 \/ ~st.ok THEN st
      ELSE MapPages(MapPage(st, asid, virt, phys, flags), asid,
                    virt + PAGE_SIZE, phys + PAGE_SIZE, flags, n - 1))

\* Mapper::map_range(virt, phys, flags, flush): the ranges must be page
\* aligned and of equal length.
MapRange(st, asid, virt, phys, flags) ==
    IF \/ virt.end - virt.start # phys.end - phys.start
       \/ virt.start % PAGE_SIZE # 0 \/ virt.end % PAGE_SIZE # 0
       \/ phys.start % PAGE_SIZE # 0
    THEN [st EXCEPT !.ok = FALSE, !.err = "Alignment"]
    ELSE MapPages(st, asid, virt.start, phys.start, flags,
                  (virt.end - virt.start) \div PAGE_SIZE)

\* ------------------------------------------------------------------------
\* talc::Span, as kernel/src/allocator.rs uses it
\* ------------------------------------------------------------------------

Span(base, acme) == [base |-> base, acme |-> acme]
SpanEmpty == Span(0, 0)
SpanFromBaseSize(base, size) == Span(base, base + size)
SpanIsEmpty(s) == s.acme <= s.base
SpanSize(s) == IF SpanIsEmpty(s) THEN 0 ELSE s.acme - s.base
\* Span::extend(low, high): base moves down by low, acme up by high.
SpanExtend(s, low, high) == IF SpanIsEmpty(s) THEN s ELSE Span(s.base - low, s.acme + high)
SpanBelow(s, max) == Span(s.base, IF max < s.acme THEN max ELSE s.acme)
SpanAbove(s, min) == Span(IF min > s.base THEN min ELSE s.base, s.acme)
\* Span::except(exclude): the parts of s below and above exclude.
SpanExcept(s, exclude) ==
    IF SpanIsEmpty(exclude) THEN <<s, SpanEmpty>>
    ELSE <<SpanBelow(s, exclude.base), SpanAbove(s, exclude.acme)>>
\* PartialEq for Span: two empty spans are equal.
SpanEq(a, b) == (SpanIsEmpty(a) /\ SpanIsEmpty(b)) \/ (a.base = b.base /\ a.acme = b.acme)
\* Span::word_align_inward, for 8-byte words.
SpanWordAlignInward(s) == Span(((s.base + 7) \div 8) * 8, (s.acme \div 8) * 8)
\* Talc::extend(old_heap, req_heap) returns the new extent of the heap.
TalcExtend(old_heap, req_heap) == SpanWordAlignInward(req_heap)

\* ------------------------------------------------------------------------
\* Kernel heap (kernel/src/allocator.rs)
\* ------------------------------------------------------------------------

DivCeil(a, b) == (a + b - 1) \div b
MaxOf(a, b) == IF a >= b THEN a ELSE b

NoOom == [op |-> "none", ok |-> TRUE, err |-> "", old |-> SpanEmpty, new |-> SpanEmpty,
          layout |-> 0, ensure |-> FALSE, map_req |-> None, written |-> {},
          frames_req |-> 0, frames_got |-> None, fenced |-> FALSE]

HeapIdle ==
    /\ heap_pc = "uninit"
    /\ heap = SpanEmpty
    /\ heap_max = 0
    /\ claimed = SpanEmpty
    /\ kpt = <<>>
    /\ ktables = {}
    /\ oom = NoOom

\* A mutation of SpanToMap: the whole new span is mapped again.
SpanToMapAll(old_heap, new_heap) ==
    [asserted |-> TRUE, span |-> new_heap]

\* ensure_mapped: the span to map is new_heap without old_heap; the part of
\* new_heap below old_heap must be empty (assert!).
SpanToMap(old_heap, new_heap) ==
    IF IsSome(old_heap)
    THEN LET e == SpanExcept(new_heap, Unwrap(old_heap))
         IN  [asserted |-> SpanIsEmpty(e[1]), span |-> e[2]]
    ELSE [asserted |-> TRUE, span |-> new_heap]

\* A mutation of MapFlags: the heap is mapped executable as well.
MapFlagsRWX == {"READ", "WRITE", "EXECUTE"}

\* EntryFlags::READ | EntryFlags::WRITE
MapFlags == {"READ", "WRITE"}

\* OomHandler::ensure_mapped(frame_alloc, old_heap, new_heap) on the state
\* (pt, tables, used, total, live); sbi_ok is the firmware's answer to the
\* remote fence. The result holds the new state and what was done.
EnsureMapped(old_heap, new_heap, sbi_ok) ==
    LET m == SpanToMap(old_heap, new_heap)
        size == SpanSize(m.span)
        a == BitmapAllocate(fa_used, fa_total, size)
        st0 == [ok |-> TRUE, err |-> "", pt |-> kpt, tables |-> ktables,
                used |-> a.used, total |-> fa_total,
                live |-> Append(fa_live, [base |-> a.base, frames |-> size]),
                flush |-> [asid |-> 0, range |-> None], written |-> {}]
        heap_phys == Range(a.base, a.base + size)
        heap_virt == Range(m.span.base, m.span.acme)
        base == [ok |-> FALSE, err |-> "", panic |-> FALSE, pt |-> kpt, tables |-> ktables,
                 used |-> fa_used, live |-> fa_live, map_req |-> None, written |-> {},
                 frames_req |-> 0, frames_got |-> None, fence |-> None]
    IN  IF ~m.asserted THEN [base EXCEPT !.panic = TRUE, !.err = "assert"]
        ELSE IF ~a.ok
        THEN [base EXCEPT !.err = "OutOfMemory", !.frames_req = size]
        ELSE IF SpanIsEmpty(m.span)
        THEN \* span_to_map.to_ptr_range().unwrap()
             [base EXCEPT !.panic = TRUE, !.err = "unwrap", !.frames_req = size,
                          !.frames_got = Some(Range(a.base, a.base + size)),
                          !.used = a.used, !.live = st0.live]
        ELSE Bind(MapRange(st0, 0, heap_virt, heap_phys, MapFlags), LAMBDA st :
             LET done == [base EXCEPT !.pt = st.pt, !.tables = st.tables, !.used = st.used,
                                      !.live = st.live, !.map_req = Some(heap_virt),
                                      !.written = st.written, !.frames_req = size,
                                      !.frames_got = Some(heap_phys)]
             IN  IF ~st.ok THEN [done EXCEPT !.err = st.err]
                 ELSE IF IsSome(st.flush.range)
                 THEN [done EXCEPT !.ok = sbi_ok, !.err = IF sbi_ok THEN "" ELSE "Sbi",
                                   !.fence = Some(InvalidateRequest(st.flush.asid,
                                                                    Unwrap(st.flush.range)))]
                 ELSE [done EXCEPT !.ok = TRUE])

\* What an init/handle_oom call leaves in the frame allocator, the page table
\* and the fence log, given the outcome r of its ensure_mapped.
ApplyEnsure(r) ==
    /\ kpt' = r.pt
    /\ ktables' = r.tables
    /\ fa_used' = r.used
    /\ fa_live' = r.live
    /\ fences' = IF IsSome(r.fence) THEN Append(fences, Unwrap(r.fence)) ELSE fences
    /\ UNCHANGED <<fa_total, fa_result>>

OomRecord(op, r, old, new, layout) ==
    [op |-> op, ok |-> r.ok, err |-> r.err, old |-> old, new |-> new, layout |-> layout,
     ensure |-> TRUE, map_req |-> r.map_req, written |-> r.written,
     frames_req |-> r.frames_req, frames_got |-> r.frames_got, fenced |-> IsSome(r.fence)]

\* allocator::init(frame_alloc, heap_range): commits the first page of the
\* range and hands it to the allocator.
HeapInit(heap_range, sbi_ok) ==
    /\ heap_pc = "uninit"
    /\ \E h \in {SpanFromBaseSize(heap_range.start, PAGE_SIZE)} :
       \E r \in {EnsureMapped(None, h, sbi_ok)} :
           /\ heap' = h
           /\ heap_max' = heap_range.end
           /\ ApplyEnsure(r)
           /\ claimed' = IF r.ok THEN h ELSE claimed
           /\ heap_pc' = IF r.panic THEN "panicked"
                         ELSE IF r.ok THEN "ready" ELSE "init_failed"
           /\ oom' = OomRecord("init", r, SpanEmpty, h, 0)

\* A mutation of NewHeap: the extended span is not clamped to the ceiling.
NewHeapNoClamp(old_heap, max, size) ==
    SpanExtend(old_heap, 0,
               DivCeil(MaxOf(SpanSize(old_heap), size), PAGE_SIZE) * PAGE_SIZE)

\* A mutation of NewHeap: the span is extended at its lower end.
NewHeapDownward(old_heap, max, size) ==
    SpanBelow(SpanExtend(old_heap,
                         DivCeil(MaxOf(SpanSize(old_heap), size), PAGE_SIZE) * PAGE_SIZE, 0),
              max)

\* handle_oom: old_heap.extend(0, max(size, layout.size).div_ceil(PAGE_SIZE)
\* * PAGE_SIZE).below(max)
NewHeap(old_heap, max, size) ==
    SpanBelow(SpanExtend(old_heap, 0,
                         DivCeil(MaxOf(SpanSize(old_heap), size), PAGE_SIZE) * PAGE_SIZE),
              max)

\* A mutation of CommittedHeap: only the newly mapped part is recorded.
CommittedHeapNewPart(old_heap, new_heap) == SpanExcept(new_heap, old_heap)[2]

\* A mutation of CommittedHeap: the handler keeps the span it had.
CommittedHeapOld(old_heap, new_heap) == old_heap

\* The span handle_oom records after a successful growth.
CommittedHeap(old_heap, new_heap) == TalcExtend(old_heap, new_heap)

\* A mutation of NoGrowth: the handler goes on to map whatever it computed.
NoGrowthNever(new_heap, old_heap) == FALSE

\* handle_oom: if new_heap == old_heap, return Err(()).
NoGrowth(new_heap, old_heap) == SpanEq(new_heap, old_heap)

\* A mutation of OomReturnsEarly: the outcome of ensure_mapped is ignored.
OomReturnsEarlyNever(r) == r.panic

\* handle_oom: with_frame_alloc(..ensure_mapped..).map_err(|_| ())? returns
\* when ensure_mapped did not return Ok.
OomReturnsEarly(r) == ~r.ok

\* OomHandler::handle_oom(talc, layout) for a layout of layout_size bytes.
HandleOom(layout_size, sbi_ok) ==
    /\ heap_pc \in {"uninit", "ready"}
    /\ \E old_heap \in {heap} :
       \E new_heap \in {NewHeap(old_heap, heap_max, layout_size)} :
           IF NoGrowth(new_heap, old_heap)
           THEN /\ sbi_ok
                /\ oom' = [NoOom EXCEPT !.op = "handle_oom", !.ok = FALSE, !.err = "NoGrowth",
                                        !.old = old_heap, !.new = new_heap,
                                        !.layout = layout_size]
                /\ UNCHANGED <<heap_pc, heap, heap_max, claimed, kpt, ktables, faVars, fences>>
           ELSE \E r \in {EnsureMapped(Some(old_heap), new_heap, sbi_ok)} :
                /\ ApplyEnsure(r)
                /\ heap' = IF OomReturnsEarly(r) THEN heap
                           ELSE CommittedHeap(old_heap, new_heap)
                /\ claimed' = IF OomReturnsEarly(r) THEN claimed
                              ELSE CommittedHeap(old_heap, new_heap)
                /\ heap_pc' = IF r.panic THEN "panicked" ELSE heap_pc
                /\ oom' = [OomRecord("handle_oom", r, old_heap, new_heap, layout_size)
                              EXCEPT !.ok = ~OomReturnsEarly(r)]
                /\ UNCHANGED heap_max

\* The ranges init is given: page aligned and at least one page long.
HeapRanges ==
    {Range(HeapStartPage * PAGE_SIZE, (HeapStartPage + k) * PAGE_SIZE) : k \in 1..MaxHeapPages}
LayoutSizes == {1, PAGE_SIZE + 1} \cup {MaxLayoutPages * PAGE_SIZE}

\* ------------------------------------------------------------------------
\* User address space and UserMmap (kernel/src/vm/user_mmap.rs)
\* ------------------------------------------------------------------------

UserStart == UserStartPage * PAGE_SIZE
UserEnd == (UserStartPage + UserPages) * PAGE_SIZE
UserPageAddrs == {p * PAGE_SIZE : p \in UserStartPage..(UserStartPage + UserPages - 1)}

RoundUp(x, a) == DivCeil(x, a) * a
RoundDown(x, a) == (x \div a) * a

\* Permissions -> EntryFlags (new_permissions.into()): the same bits, on a
\* valid entry.
ToEntryFlags(perms) == perms \cup {"VALID"}

\* The index of the region that contains addr, 0 if there is none.
RegionAt(rs, addr) ==
    LET c == {i \in DOMAIN rs : rs[i].start <= addr /\ addr < rs[i].end}
    IN  IF c = {} THEN 0 ELSE CHOOSE i \in c : TRUE

\* regions.find_mut(&start): the index of the region that starts at start.
FindRegion(rs, start) ==
    LET c == {i \in DOMAIN rs : rs[i].start = start}
    IN  IF c = {} THEN 0 ELSE CHOOSE i \in c : TRUE

\* AddressSpace::map, the search: the lowest address aligned to align at
\* which size bytes fit into a gap between the regions (first fit), -1 if
\* there is none.
FindSpot(rs, size, align) ==
    LET c == {a \in UserPageAddrs :
                /\ a % align = 0
                /\ a + size <= UserEnd
                /\ \A i \in DOMAIN rs : rs[i].end <= a \/ rs[i].start >= a + size}
    IN  IF c = {} THEN -1 ELSE Min(c)

\* A mutation of InsertRegion: the new region goes to the end of the list.
InsertRegionLast(rs, r) == Append(rs, r)

\* AddressSpace::map, the insertion: r goes to its place in the order of
\* start addresses.
InsertRegion(rs, r) ==
    LET k == Cardinality({i \in DOMAIN rs : rs[i].start < r.start})
    IN  [i \in 1..(Len(rs) + 1) |->
           IF i <= k THEN rs[i] ELSE IF i = k + 1 THEN r ELSE rs[i - 1]]

\* new_zeroed: Permissions::READ | Permissions::WRITE | Permissions::USER
NewZeroedPermissions == {"READ", "WRITE", "USER"}

\* A mutation of MakeExecutablePermissions: WRITE is kept.
MakeExecutablePermissionsKeepWrite == {"READ", "WRITE", "EXECUTE", "USER"}

\* make_executable: Permissions::READ | Permissions::EXECUTE | Permissions::USER
MakeExecutablePermissions == {"READ", "EXECUTE", "USER"}

\* A mutation of MakeReadonlyPermissions: WRITE is kept.
MakeReadonlyPermissionsWrite == {"READ", "WRITE", "USER"}

\* make_readonly: Permissions::READ | Permissions::USER
MakeReadonlyPermissions == {"READ", "USER"}

\* The fence log of the user address space keeps the last MaxFences requests.
LogFence(fs, req) ==
    IF Len(fs) < MaxFences THEN Append(fs, req) ELSE Append(Tail(fs), req)

NoMmResult ==
    [op |-> "none", ok |-> TRUE, err |-> "", start |-> 0, perms |-> {}, mapped |-> FALSE,
     fenced |-> FALSE]

NoTrap == [cause |-> "none", tval |-> 0, in_task |-> FALSE, flow |-> "none"]

NoCopy ==
    [op |-> "none", handle |-> Range(0, 0), range |-> Range(0, 0), handed |-> None,
     ret |-> "none", err |-> "", trap |-> "none", phase |-> "none", caught |-> FALSE,
     active |-> None]

\* The frames of the machine the user address space runs on.
UserFrames == {FrameAddr(i) : i \in 0..(MmapFrames - 1)}

MmIdle ==
    /\ regions = <<>>
    /\ upt = <<>>
    /\ utables = {}
    /\ mmaps = <<>>
    /\ mm_result = NoMmResult
    /\ trap_result = NoTrap
    /\ nonzero = UserFrames
    /\ before = None
    /\ copy_result = NoCopy

\* UserMmap::new_zeroed(aspace, len, align): aspace.map(layout, RW|USER, ..)
\* reserves a region (nothing is mapped yet) and the handle takes its range.
NewZeroed(len, align) ==
    /\ Len(mmaps) < MaxMmaps
    /\ align >= PAGE_SIZE
    /\ before' = Some([regions |-> regions, usage |-> frame_usage])
    /\ LET size == RoundUp(len, align)
           a == FindSpot(regions, size, align)
       IN  IF a = -1
           THEN /\ mm_result' = [NoMmResult EXCEPT !.op = "new_zeroed", !.ok = FALSE,
                                                   !.err = "OutOfMemory"]
                /\ UNCHANGED <<regions, mmaps>>
           ELSE /\ regions' = InsertRegion(regions,
                                  [start |-> a, end |-> a + size,
                                   perms |-> NewZeroedPermissions, set_by |-> "new_zeroed"])
                /\ mmaps' = Append(mmaps, Range(a, a + size))
                /\ mm_result' = [NoMmResult EXCEPT !.op = "new_zeroed", !.start = a,
                                                   !.perms = NewZeroedPermissions]
    /\ UNCHANGED <<upt, utables, faVars, fences, nonzero>>

\* UserMmap::new_empty(): a handle of zero bytes, no region.
NewEmpty ==
    /\ Len(mmaps) < MaxMmaps
    /\ mmaps' = Append(mmaps, Range(0, 0))
    /\ mm_result' = [NoMmResult EXCEPT !.op = "new_empty"]
    /\ before' = None
    /\ UNCHANGED <<regions, upt, utables, faVars, fences, nonzero>>

\* Mapper::update_flags(virt, len, flags, flush): rewrites the flags of the
\* leaf entries in place; a page without a valid leaf entry is
\* VirtualAddressNotMapped. st is [ok, err, pt, flush].
RECURSIVE UpdateFlags(_, _, _, _)
UpdateFlags(s, virt, n, flags) ==
    Bind(s, LAMBDA st :
      IF n = 0 \/ ~st.ok THEN st
      ELSE IF virt \notin DOMAIN st.pt
      THEN [st EXCEPT !.ok = FALSE, !.err = "VirtualAddressNotMapped"]
      ELSE UpdateFlags([st EXCEPT !.pt[virt].flags = flags,
                                  !.flush = [@ EXCEPT !.range =
                                      ExtendedRange(@, Range(virt, virt + PAGE_SIZE))]],
                       virt + PAGE_SIZE, n - 1, flags))

\* UserMmap::protect(aspace, new_permissions) on handle h, requested through
\* op ("make_executable", "make_readonly" or "protect").
ProtectAs(op, h, new_permissions, sbi_ok) ==
    IF mmaps[h].start >= mmaps[h].end
    THEN \* an empty range: nothing is done
         /\ sbi_ok
         /\ before' = None
         /\ mm_result' = [NoMmResult EXCEPT !.op = op, !.perms = new_permissions]
         /\ UNCHANGED <<regions, upt, utables, mmaps, faVars, fences, nonzero>>
    ELSE \E i \in {FindRegion(regions, mmaps[h].start)} :
         \E st \in {UpdateFlags([ok |-> TRUE, err |-> "", pt |-> upt,
                                 flush |-> [asid |-> UserAsid, range |-> None]],
                                mmaps[h].start,
                                (mmaps[h].end - mmaps[h].start) \div PAGE_SIZE,
                                ToEntryFlags(new_permissions))} :
             /\ i # 0
             /\ before' = None
             /\ regions' = [regions EXCEPT ![i].perms = new_permissions, ![i].set_by = op]
             /\ upt' = st.pt
             /\ IF st.ok
                THEN /\ fences' = IF IsSome(st.flush.range)
                                  THEN LogFence(fences, InvalidateRequest(st.flush.asid,
                                                           Unwrap(st.flush.range)))
                                  ELSE fences
                     /\ mm_result' = [op |-> op, ok |-> sbi_ok,
                                      err |-> IF sbi_ok THEN "" ELSE "Sbi",
                                      start |-> mmaps[h].start, perms |-> new_permissions,
                                      mapped |-> FALSE, fenced |-> IsSome(st.flush.range)]
                ELSE /\ sbi_ok
                     /\ fences' = fences
                     /\ mm_result' = [op |-> op, ok |-> FALSE, err |-> st.err,
                                      start |-> mmaps[h].start, perms |-> new_permissions,
                                      mapped |-> FALSE, fenced |-> FALSE]
             /\ UNCHANGED <<utables, mmaps, faVars, nonzero>>

MakeExecutable(h, sbi_ok) == ProtectAs("make_executable", h, MakeExecutablePermissions, sbi_ok)
MakeReadonly(h, sbi_ok) == ProtectAs("make_readonly", h, MakeReadonlyPermissions, sbi_ok)
\* protect called with a permission set of the caller's choice.
Protect(h, perms, sbi_ok) == ProtectAs("protect", h, perms, sbi_ok)

\* A mutation of ZeroFill: the frames are handed out with what they held.
ZeroFillSkip(nz, frames) == nz

\* The commit of a ZeroFill region fills the frames it maps with zeroes.
ZeroFill(nz, frames) == nz \ frames

\* A mutation of AlreadyCommitted: the page table is not consulted.
AlreadyCommittedNever(pt, page) == FALSE

\* page_fault: the faulting page already has a leaf entry.
AlreadyCommitted(pt, page) == page \in DOMAIN pt

\* The permission a fault's access needs.
AccessPermission(access) ==
    CASE access = "LOAD" -> "READ"
      [] access = "STORE" -> "WRITE"
      [] access = "INSTRUCTION" -> "EXECUTE"

\* AddressSpace::page_fault(addr, access): the region that contains addr is
\* looked up; an access beyond its permissions is refused; a page not yet
\* committed gets a fresh zero frame mapped with the region's permissions.
PageFault(addr, access, sbi_ok) ==
    LET i == RegionAt(regions, addr)
        page == RoundDown(addr, PAGE_SIZE)
        res(ok, err) == [op |-> "page_fault", ok |-> ok, err |-> err, start |-> addr,
                         perms |-> {AccessPermission(access)}, mapped |-> FALSE,
                         fenced |-> FALSE]
        a == allocate_frame(fa_used, fa_total)
    IN  IF i = 0
        THEN /\ sbi_ok
             /\ mm_result' = res(FALSE, "NotMapped")
             /\ UNCHANGED <<regions, upt, utables, mmaps, faVars, fences, nonzero>>
        ELSE IF AccessPermission(access) \notin regions[i].perms
        THEN /\ sbi_ok
             /\ mm_result' = res(FALSE, "PermissionViolation")
             /\ UNCHANGED <<regions, upt, utables, mmaps, faVars, fences, nonzero>>
        ELSE IF AlreadyCommitted(upt, page)
        THEN /\ sbi_ok
             /\ mm_result' = res(TRUE, "")
             /\ UNCHANGED <<regions, upt, utables, mmaps, faVars, fences, nonzero>>
        ELSE IF ~a.ok
        THEN /\ sbi_ok
             /\ mm_result' = res(FALSE, "OutOfMemory")
             /\ UNCHANGED <<regions, upt, utables, mmaps, faVars, fences, nonzero>>
        ELSE \E st \in {MapRange([ok |-> TRUE, err |-> "", pt |-> upt, tables |-> utables,
                                   used |-> a.used, total |-> fa_total,
                                   live |-> Append(fa_live, [base |-> a.base, frames |-> 1]),
                                   flush |-> [asid |-> UserAsid, range |-> None],
                                   written |-> {}],
                                  UserAsid, Range(page, page + PAGE_SIZE),
                                  Range(a.base, a.base + PAGE_SIZE),
                                  ToEntryFlags(regions[i].perms))} :
             /\ upt' = st.pt
             /\ utables' = st.tables
             /\ fa_used' = st.used
             /\ fa_live' = st.live
             /\ nonzero' = ZeroFill(nonzero, {a.base})
             /\ IF st.ok
                THEN /\ fences' = LogFence(fences, InvalidateRequest(st.flush.asid,
                                                                   Unwrap(st.flush.range)))
                     /\ mm_result' = [res(sbi_ok, IF sbi_ok THEN "" ELSE "Sbi")
                                        EXCEPT !.mapped = TRUE, !.fenced = TRUE]
                ELSE /\ sbi_ok
                     /\ fences' = fences
                     /\ mm_result' = res(FALSE, st.err)
             /\ UNCHANGED <<regions, mmaps, fa_total, fa_result>>

\* The exceptions handle_page_fault is given.
Traps == {"LoadPageFault", "StorePageFault", "InstructionPageFault", "IllegalInstruction"}

\* A mutation of FaultFlags: every page fault is taken for a load.
FaultFlagsAllLoad(trap) ==
    IF trap \in {"LoadPageFault", "StorePageFault", "InstructionPageFault"}
    THEN Some("LOAD") ELSE None

\* handle_page_fault: the PageFaultFlags of the trap, None when the trap is
\* not a page fault.
FaultFlags(trap) ==
    CASE trap = "LoadPageFault" -> Some("LOAD")
      [] trap = "StorePageFault" -> Some("STORE")
      [] trap = "InstructionPageFault" -> Some("INSTRUCTION")
      [] OTHER -> None

\* A mutation of Corrected: every fault is reported as corrected.
CorrectedAlways(page_fault_ok) == "Break"

\* handle_page_fault, the result: ControlFlow::Break when page_fault
\* returned Ok, ControlFlow::Continue when it returned Err.
Corrected(page_fault_ok) == IF page_fault_ok THEN "Break" ELSE "Continue"

\* handle_page_fault(trap, tval) on a CPU that is (in_task) or is not inside
\* a task: ControlFlow::Break when the address space corrected the fault,
\* ControlFlow::Continue when the fault is left to the next handler.
handle_page_fault(trap, tval, in_task, sbi_ok) ==
    IF ~in_task \/ ~IsSome(FaultFlags(trap))
    THEN /\ sbi_ok
         /\ before' = None
         /\ trap_result' = [cause |-> trap, tval |-> tval, in_task |-> in_task,
                            flow |-> "Continue"]
         /\ mm_result' = [NoMmResult EXCEPT !.op = "handle_page_fault"]
         /\ UNCHANGED <<regions, upt, utables, mmaps, faVars, fences, nonzero>>
    ELSE /\ PageFault(tval, Unwrap(FaultFlags(trap)), sbi_ok)
         /\ before' = None
         /\ trap_result' = [cause |-> trap, tval |-> tval, in_task |-> in_task,
                            flow |-> Corrected(mm_result'.ok)]

\* The live allocations without the frames that back the pages in pages.
DropFrames(live, pt, pages) ==
    SelectSeq(live, LAMBDA e : \A v \in pages : e # [base |-> pt[v].phys, frames |-> 1])

RECURSIVE ReleaseFrames(_, _, _)
ReleaseFrames(used, pt, pages) ==
    IF pages = {} THEN used
    ELSE LET v == CHOOSE x \in pages : TRUE
         IN  ReleaseFrames(deallocate_frame(used, pt[v].phys), pt, pages \ {v})

\* AddressSpace::unmap of the exact range of handle h's region: the leaf
\* entries are cleared, their frames returned to the frame allocator (what
\* a returned frame holds is no longer known), the region removed and the
\* range flushed; the handle is dropped with it. The record of the map is
\* kept over the unmap that directly follows it.
Unmap(h, sbi_ok) ==
    /\ mmaps[h].start < mmaps[h].end
    /\ before' = IF mm_result.op = "new_zeroed" /\ mm_result.ok
                     /\ mm_result.start = mmaps[h].start
                  THEN before ELSE None
    /\ \E i \in {FindRegion(regions, mmaps[h].start)} :
       \E pages \in {{v \in DOMAIN upt : mmaps[h].start <= v /\ v < mmaps[h].end}} :
           /\ i # 0
           /\ regions' = RemoveAt(regions, i)
           /\ mmaps' = RemoveAt(mmaps, h)
           /\ upt' = [v \in DOMAIN upt \ pages |-> upt[v]]
           /\ fa_used' = ReleaseFrames(fa_used, upt, pages)
           /\ fa_live' = DropFrames(fa_live, upt, pages)
           /\ nonzero' = nonzero \cup {upt[v].phys : v \in pages}
           /\ fences' = LogFence(fences, InvalidateRequest(UserAsid, mmaps[h]))
           /\ mm_result' = [op |-> "unmap", ok |-> sbi_ok,
                            err |-> IF sbi_ok THEN "" ELSE "Sbi",
                            start |-> mmaps[h].start, perms |-> {}, mapped |-> FALSE,
                            fenced |-> TRUE]
    /\ UNCHANGED <<utables, fa_total, fa_result>>

\* A mutation of TRAP_MASK: every trap is caught.
TRAP_MASK_ALL == {"StorePageFault", "LoadPageFault", "IllegalInstruction"}

\* TRAP_MASK: TrapMask::StorePageFault | TrapMask::LoadPageFault
TRAP_MASK == {"StorePageFault", "LoadPageFault"}

\* UserMmap::commit, the range it hands to the region's commit for the
\* byte range `range` of the handle whose range is self_range.
CommitSrcRange(self_range, range) ==
    Range(self_range.start + range.start, self_range.end + range.start)

\* The pages a byte range touches.
PagesTouched(r) ==
    {v \in UserPageAddrs \cup {UserEnd} : v + PAGE_SIZE > r.start /\ v < r.end}

\* AddressSpaceRegion::commit, page by page in address order: a page that
\* has no leaf entry gets a fresh frame mapped with flags; st is the
\* mapper's state.
RECURSIVE CommitPages(_, _, _)
CommitPages(s, pages, flags) ==
    Bind(s, LAMBDA st :
      IF pages = {} \/ ~st.ok THEN st
      ELSE Bind(Min(pages), LAMBDA v :
        IF v \in DOMAIN st.pt THEN CommitPages(st, pages \ {v}, flags)
        ELSE Bind(allocate_frame(st.used, st.total), LAMBDA a :
          IF ~a.ok THEN [st EXCEPT !.ok = FALSE, !.err = "OutOfMemory"]
          ELSE CommitPages(
                 MapRange([st EXCEPT !.used = a.used,
                                     !.live = Append(@, [base |-> a.base, frames |-> 1])],
                          UserAsid, Range(v, v + PAGE_SIZE),
                          Range(a.base, a.base + PAGE_SIZE), flags),
                 pages \ {v}, flags))))

\* A mutation of InScope: the scope is entered before the commit.
InScopeFromCommit(phase) == phase \in {"commit", "copy"}

\* with_user_slice/with_user_slice_mut: catch_traps encloses the raw copy
\* only; the commit (and the activation of the address space) comes before
\* it, the return after it.
InScope(phase) == phase = "copy"

\* with_user_slice_mut calls aspace.arch.activate() between the commit and
\* the raw copy; with_user_slice does not.
ActivatesBeforeCopy(op) == op = "copy_to_userspace"

\* The address space active during the raw copy of op, when act was active
\* at the call.
ActiveDuringCopy(op, act) == IF ActivatesBeforeCopy(op) THEN UserAsid ELSE act

\* copy_from_userspace (will_write = FALSE) and copy_to_userspace
\* (will_write = TRUE) of the byte range `range` of handle h:
\* self.commit(aspace, range, will_write)?, then the raw copy inside
\* catch_traps(TRAP_MASK, ..). trap is the trap the hardware raises during
\* phase ("commit", "copy" or "after" the return; "none": it raises none). Of the range handed to the region's
\* commit the part that lies beyond the region is either refused (clamp =
\* FALSE) or dropped (clamp = TRUE). The copy of copy_to_userspace leaves
\* the caller's bytes in the frames of the range.
UserCopy(op, will_write, h, range, trap, phase, clamp, sbi_ok) ==
    /\ mmaps[h].start < mmaps[h].end
    /\ range.start <= range.end /\ range.end <= mmaps[h].end - mmaps[h].start
    /\ (trap = "none") = (phase = "none")
    /\ range.start = 0 => clamp
    /\ ~sbi_ok => trap = "none"
    /\ \E i \in {FindRegion(regions, mmaps[h].start)} :
       \E src_range \in {CommitSrcRange(mmaps[h], range)} :
       \E access \in {IF will_write THEN "STORE" ELSE "LOAD"} :
       \E res \in {[op |-> op, handle |-> mmaps[h], range |-> range,
                     handed |-> Some(src_range), ret |-> "none", err |-> "",
                     trap |-> trap, phase |-> phase, caught |-> FALSE, active |-> None]} :
       \E during \in {Some(ActiveDuringCopy(op, active))} :
         /\ i # 0
         /\ mm_result' = [NoMmResult EXCEPT !.op = op]
         /\ before' = None
         /\ IF src_range.end > regions[i].end /\ ~clamp
            THEN /\ sbi_ok /\ trap = "none"
                 /\ copy_result' = [res EXCEPT !.ret = "Err", !.err = "OutOfRange"]
                 /\ UNCHANGED <<regions, upt, utables, mmaps, faVars, fences, nonzero>>
            ELSE IF AccessPermission(access) \notin regions[i].perms
            THEN /\ sbi_ok /\ trap = "none"
                 /\ copy_result' = [res EXCEPT !.ret = "Err", !.err = "PermissionViolation"]
                 /\ UNCHANGED <<regions, upt, utables, mmaps, faVars, fences, nonzero>>
            ELSE \E st \in {CommitPages(
                               [ok |-> TRUE, err |-> "", pt |-> upt, tables |-> utables,
                                used |-> fa_used, total |-> fa_total, live |-> fa_live,
                                flush |-> [asid |-> UserAsid, range |-> None],
                                written |-> {}],
                               {v \in PagesTouched(src_range) : v < regions[i].end},
                               ToEntryFlags(regions[i].perms))} :
                 /\ upt' = st.pt
                 /\ utables' = st.tables
                 /\ fa_used' = st.used
                 /\ fa_live' = st.live
                 /\ fences' = IF st.ok /\ IsSome(st.flush.range)
                               THEN LogFence(fences, InvalidateRequest(st.flush.asid,
                                                        Unwrap(st.flush.range)))
                               ELSE fences
                 /\ UNCHANGED <<regions, mmaps, fa_total, fa_result>>
                 /\ IF ~st.ok
                    THEN /\ sbi_ok /\ trap = "none"
                         /\ nonzero' = ZeroFill(nonzero, {st.pt[v].phys : v \in st.written})
                         /\ copy_result' = [res EXCEPT !.ret = "Err", !.err = st.err]
                    ELSE IF ~sbi_ok /\ IsSome(st.flush.range)
                    THEN /\ trap = "none"
                         /\ nonzero' = ZeroFill(nonzero, {st.pt[v].phys : v \in st.written})
                         /\ copy_result' = [res EXCEPT !.ret = "Err", !.err = "Sbi"]
                    ELSE IF trap # "none" /\ phase # "after"
                    THEN \* the trap ends the copy before a byte is copied
                         /\ nonzero' = ZeroFill(nonzero, {st.pt[v].phys : v \in st.written})
                         /\ copy_result' =
                              IF InScope(phase) /\ trap \in TRAP_MASK
                              THEN [res EXCEPT !.ret = "Err", !.err = "Trap", !.caught = TRUE,
                                               !.active = during]
                              ELSE [res EXCEPT !.active = IF phase = "copy" THEN during
                                                          ELSE None]
                    ELSE /\ nonzero' =
                              IF will_write /\ range.start < range.end
                              THEN ZeroFill(nonzero, {st.pt[v].phys : v \in st.written})
                                     \cup {st.pt[v].phys : v \in PagesTouched(
                                              Range(mmaps[h].start + range.start,
                                                    mmaps[h].start + range.end))}
                              ELSE ZeroFill(nonzero, {st.pt[v].phys : v \in st.written})
                         /\ copy_result' = [res EXCEPT !.ret = "Ok", !.active = during]
         /\ active' = IF IsSome(copy_result'.active) THEN Unwrap(copy_result'.active)
                       ELSE active

copy_from_userspace(h, src_range, trap, phase, clamp, sbi_ok) ==
    UserCopy("copy_from_userspace", FALSE, h, src_range, trap, phase, clamp, sbi_ok)

copy_to_userspace(h, dst_range, trap, phase, clamp, sbi_ok) ==
    UserCopy("copy_to_userspace", TRUE, h, dst_range, trap, phase, clamp, sbi_ok)

\* What SpecMmap and SpecAccess feed the operations.
MmapLens == {1, PAGE_SIZE + 1}
MmapAligns == {PAGE_SIZE, 2 * PAGE_SIZE}
ProtectRequests == {{"READ", "WRITE", "EXECUTE", "USER"}}
FaultAddrs == {a + 8 : a \in UserPageAddrs}
AccessLens == {PAGE_SIZE, 2 * PAGE_SIZE}
CopyRanges == {Range(0, 8), Range(8, 16)}
CopyTraps ==
    {<<"none", "none">>, <<"LoadPageFault", "commit">>, <<"LoadPageFault", "copy">>,
     <<"StorePageFault", "copy">>, <<"IllegalInstruction", "copy">>,
     <<"StorePageFault", "after">>}

\* ------------------------------------------------------------------------
\* Locking: which locks the kernel's paths take around page-table mutation
\* (kernel/src/allocator.rs, vm/trap_handler.rs, vm/user_mmap.rs,
\* runtime/instantiate/guest_allocator.rs), once the heap is initialised
\* ------------------------------------------------------------------------

Cpus == 0..MaxCpu
KernelAsid == 0

Locks == {"HeapLock", "KernelAddressSpace", "UserAddressSpace", "FrameAllocator"}

\* The lock that guards the address space asid.
AddressSpaceLock(asid) ==
    IF asid = KernelAsid THEN "KernelAddressSpace" ELSE "UserAddressSpace"

\* The documented lock order: HeapLock -> AddressSpace -> FrameAllocator.
LockRank(l) ==
    CASE l = "HeapLock" -> 1
      [] l \in {"KernelAddressSpace", "UserAddressSpace"} -> 2
      [] l = "FrameAllocator" -> 3

\* The steps of a path.
Lock(l) == [op |-> "lock", lock |-> l, asid |-> -1]
Unlock(l) == [op |-> "unlock", lock |-> l, asid |-> -1]
Mutate(asid) == [op |-> "mutate", lock |-> "", asid |-> asid]
FlushStep(asid) == [op |-> "flush", lock |-> "", asid |-> asid]

\* An allocation from the global allocator that the committed heap serves:
\* KERNEL_ALLOCATOR (Talck<RawMutex, OomHandler>) locks and unlocks.
KernelAlloc == <<Lock("HeapLock"), Unlock("HeapLock")>>

\* A mutation of KernelAllocOom: the handler allocates through the global
\* allocator while it runs under the allocator's lock.
KernelAllocOomReentrant ==
    <<Lock("HeapLock"), Lock("FrameAllocator"), Lock("HeapLock"), Unlock("HeapLock"),
      Mutate(KernelAsid), FlushStep(KernelAsid), Unlock("FrameAllocator"),
      Unlock("HeapLock")>>

\* An allocation that exhausts the heap: under the allocator's lock
\* handle_oom runs with_frame_alloc(|alloc| ensure_mapped(..)), which maps
\* into the active kernel table (Mapper::from_active(0, ..)) and flushes.
KernelAllocOom ==
    <<Lock("HeapLock"), Lock("FrameAllocator"),
      Mutate(KernelAsid), FlushStep(KernelAsid), Unlock("FrameAllocator"),
      Unlock("HeapLock")>>

\* handle_page_fault: the current task's address space is locked, page_fault
\* takes a frame, maps the page and flushes; the guard is dropped on return.
HandlePageFault ==
    <<Lock("UserAddressSpace"), Lock("FrameAllocator"), Mutate(UserAsid),
      Unlock("FrameAllocator"), FlushStep(UserAsid), Unlock("UserAddressSpace")>>

\* UserMmap::protect on a locked address space (&mut AddressSpace):
\* update_flags, then flush.flush().
UserMmapProtect ==
    <<Lock("UserAddressSpace"), Mutate(UserAsid), FlushStep(UserAsid),
      Unlock("UserAddressSpace")>>

\* GuestAllocator::new_in_kernel_space: map_additional_pages maps into the
\* kernel table inside with_frame_alloc and returns the batch, which is
\* flushed after the closure has returned; Arc::new then allocates.
GuestNewInKernelSpace ==
    <<Lock("FrameAllocator"), Mutate(KernelAsid), Unlock("FrameAllocator"),
      FlushStep(KernelAsid), Lock("HeapLock"), Unlock("HeapLock")>>

\* A frame allocation on its own: with_frame_alloc(|alloc| ..).
WithFrameAlloc == <<Lock("FrameAllocator"), Unlock("FrameAllocator")>>

PathNames ==
    {"KernelAlloc", "KernelAllocOom", "HandlePageFault",
     "UserMmapProtect", "GuestNewInKernelSpace", "WithFrameAlloc"}

PathOf(name) ==
    CASE name = "KernelAlloc" -> KernelAlloc
      [] name = "KernelAllocOom" -> KernelAllocOom
      [] name = "HandlePageFault" -> HandlePageFault
      [] name = "UserMmapProtect" -> UserMmapProtect
      [] name = "GuestNewInKernelSpace" -> GuestNewInKernelSpace
      [] name = "WithFrameAlloc" -> WithFrameAlloc

NoStep == [cpu |-> -1, op |-> "none", asid |-> -1]

LkIdle ==
    /\ cpu_path = [c \in Cpus |-> "idle"]
    /\ cpu_pc = [c \in Cpus |-> 0]
    /\ owner = [l \in Locks |-> -1]
    /\ held = [c \in Cpus |-> <<>>]
    /\ last = NoStep
    /\ unflushed = [a \in {KernelAsid, UserAsid} |-> {}]

\* The step CPU c is about to take.
NextStep(c) == PathOf(cpu_path[c])[cpu_pc[c]]

\* CPU c has taken its step: it moves on, and is idle after the last one.
Advance(c) ==
    IF cpu_pc[c] = Len(PathOf(cpu_path[c]))
    THEN /\ cpu_path' = [cpu_path EXCEPT ![c] = "idle"]
         /\ cpu_pc' = [cpu_pc EXCEPT ![c] = 0]
    ELSE /\ cpu_pc' = [cpu_pc EXCEPT ![c] = @ + 1]
         /\ UNCHANGED cpu_path

\* CPU c enters the path name.
Enter(c, name) ==
    /\ cpu_path[c] = "idle"
    /\ cpu_path' = [cpu_path EXCEPT ![c] = name]
    /\ cpu_pc' = [cpu_pc EXCEPT ![c] = 1]
    /\ last' = [cpu |-> c, op |-> "enter", asid |-> -1]
    /\ UNCHANGED <<owner, held, unflushed>>

\* CPU c takes the lock of its next step; it spins while another holder, or
\* c itself, has it.
Acquire(c) ==
    /\ cpu_path[c] # "idle"
    /\ NextStep(c).op = "lock"
    /\ owner[NextStep(c).lock] = -1
    /\ owner' = [owner EXCEPT ![NextStep(c).lock] = c]
    /\ held' = [held EXCEPT ![c] = Append(@, NextStep(c).lock)]
    /\ last' = [cpu |-> c, op |-> "lock", asid |-> -1]
    /\ Advance(c)
    /\ UNCHANGED unflushed

\* CPU c releases the lock of its next step.
Release(c) ==
    /\ cpu_path[c] # "idle"
    /\ NextStep(c).op = "unlock"
    /\ owner' = [owner EXCEPT ![NextStep(c).lock] = -1]
    /\ held' = [held EXCEPT ![c] = SelectSeq(@, LAMBDA l : l # NextStep(c).lock)]
    /\ last' = [cpu |-> c, op |-> "unlock", asid |-> -1]
    /\ Advance(c)
    /\ UNCHANGED unflushed

\* CPU c writes page table entries of an address space through the Mapper,
\* recording them into its Flush batch.
MutateTable(c) ==
    /\ cpu_path[c] # "idle"
    /\ NextStep(c).op = "mutate"
    /\ unflushed' = [unflushed EXCEPT ![NextStep(c).asid] = @ \cup {c}]
    /\ last' = [cpu |-> c, op |-> "mutate", asid |-> NextStep(c).asid]
    /\ Advance(c)
    /\ UNCHANGED <<owner, held>>

\* CPU c's flush.flush() returns.
FlushTlb(c) ==
    /\ cpu_path[c] # "idle"
    /\ NextStep(c).op = "flush"
    /\ unflushed' = [unflushed EXCEPT ![NextStep(c).asid] = @ \ {c}]
    /\ last' = [cpu |-> c, op |-> "flush", asid |-> NextStep(c).asid]
    /\ Advance(c)
    /\ UNCHANGED <<owner, held>>

\* CPU c spins on a lock.
Spinning(c) ==
    /\ cpu_path[c] # "idle"
    /\ NextStep(c).op = "lock"
    /\ owner[NextStep(c).lock] # -1

\* Some CPUs spin on locks that only CPUs among them could release.
Deadlocked ==
    \E S \in SUBSET Cpus :
        /\ S # {}
        /\ \A c \in S : Spinning(c) /\ owner[NextStep(c).lock] \in S

\* ------------------------------------------------------------------------
\* AtomicWaker (kernel/src/util/atomic_waker.rs)
\* ------------------------------------------------------------------------

Threads == 0..MaxThread
CallIds == 1..MaxCalls

\* The states of AtomicWaker.state: two bits.
WAITING == 0
REGISTERING == 1
WAKING == 2

\* A mutation of FetchOrWaking: WAKING is stored over the other bit.
FetchOrWakingStores(s) == WAKING

\* state.fetch_or(WAKING): the value stored.
FetchOrWaking(s) == IF s \div WAKING = 1 THEN s ELSE s + WAKING

\* A mutation of ReleaseRegistering: the REGISTERING bit stays set.
ReleaseRegisteringKeeps(s) == s

\* state.compare_exchange(REGISTERING, WAITING): the value stored.
ReleaseRegistering(s) == IF s = REGISTERING THEN WAITING ELSE s

\* A mutation of FetchAndNotWaking: the WAKING bit stays set.
FetchAndNotWakingKeeps(s) == s

\* state.fetch_and(!WAKING): the value stored.
FetchAndNotWaking(s) == s % WAKING

\* A mutation of GotWakingLock: the previous state is not looked at.
GotWakingLockAlways(prior) == TRUE

\* take_waker: the WAKING lock is obtained when fetch_or found WAITING.
GotWakingLock(prior) == prior = WAITING

\* A mutation of WokenOnRelease: the waker taken out of the cell is dropped.
WokenOnReleaseOldOnly(old_waker, waker, panicked) ==
    IF panicked THEN waker ELSE old_waker

\* do_register after its release found REGISTERING|WAKING: the wakers it
\* wakes, as a sequence. When into_waker panicked the waker taken out of the
\* cell is the old one and is woken as such; otherwise the waker that was
\* replaced and the new one are both woken.
WokenOnRelease(old_waker, waker, panicked) ==
    IF panicked THEN waker ELSE old_waker \o waker

\* w with one more wake-up for each call in the sequence ws.
CountWakes(w, ws) ==
    [c \in CallIds |-> w[c] + Cardinality({i \in DOMAIN ws : ws[i] = c})]

NoLoc ==
    [call |-> 0, old_waker |-> None, waker |-> None, panicked |-> FALSE, seen |-> WAITING]

WkIdle ==
    /\ w_state = WAITING
    /\ w_cell = None
    /\ w_pc = [t \in Threads |-> "idle"]
    /\ w_loc = [t \in Threads |-> NoLoc]
    /\ w_locked = [t \in Threads |-> FALSE]
    /\ w_next = 1
    /\ w_regs = {}
    /\ w_woken = [c \in CallIds |-> 0]
    /\ w_replaced = {}
    /\ w_returned = 0
    /\ w_owed = {}

\* do_register, the first compare_exchange(WAITING, REGISTERING): on
\* WAITING the thread holds the cell; on WAKING it wakes its own waker and
\* returns; on REGISTERING or REGISTERING|WAKING the call is dropped.
RegisterCas(t) ==
    /\ w_pc[t] = "idle" /\ w_next <= MaxCalls
    /\ w_next' = w_next + 1
    /\ w_regs' = w_regs \cup {w_next}
    /\ IF w_state = WAITING
       THEN /\ w_state' = REGISTERING
            /\ w_locked' = [w_locked EXCEPT ![t] = TRUE]
            /\ w_pc' = [w_pc EXCEPT ![t] = "into_waker"]
            /\ w_loc' = [w_loc EXCEPT ![t] = [NoLoc EXCEPT !.call = w_next]]
            /\ UNCHANGED <<w_woken, w_returned>>
       ELSE IF w_state = WAKING
       THEN /\ w_woken' = CountWakes(w_woken, <<w_next>>)
            /\ w_returned' = w_next
            /\ UNCHANGED <<w_state, w_locked, w_pc, w_loc>>
       ELSE UNCHANGED <<w_state, w_locked, w_pc, w_loc, w_woken, w_returned>>
    /\ UNCHANGED <<w_cell, w_replaced, w_owed>>

\* do_register: catch_unwind(|| waker.into_waker()), which returns the new
\* waker or panics.
RegisterIntoWaker(t, panics) ==
    /\ w_pc[t] = "into_waker"
    /\ w_loc' = [w_loc EXCEPT ![t].panicked = panics]
    /\ w_pc' = [w_pc EXCEPT ![t] = IF panics THEN "release" ELSE "store"]
    /\ UNCHANGED <<w_state, w_cell, w_locked, w_next, w_regs, w_woken, w_replaced,
                   w_returned, w_owed>>

\* do_register: old_waker = (*self.waker.get()).take();
\* *self.waker.get() = Some(new_waker)
RegisterStore(t) ==
    /\ w_pc[t] = "store"
    /\ w_loc' = [w_loc EXCEPT ![t].old_waker = w_cell]
    /\ w_cell' = Some(w_loc[t].call)
    /\ w_replaced' = w_replaced \cup {w_cell[i] : i \in DOMAIN w_cell}
    /\ w_pc' = [w_pc EXCEPT ![t] = "release"]
    /\ UNCHANGED <<w_state, w_locked, w_next, w_regs, w_woken, w_returned, w_owed>>

\* do_register: compare_exchange(REGISTERING, WAITING). On success the old
\* waker is dropped and the call returns (with the panic of into_waker, if
\* there was one); on failure the state observed is kept.
RegisterRelease(t) ==
    /\ w_pc[t] = "release"
    /\ IF w_state = REGISTERING
       THEN /\ w_state' = ReleaseRegistering(w_state)
            /\ w_locked' = [w_locked EXCEPT ![t] = FALSE]
            /\ w_pc' = [w_pc EXCEPT ![t] = "idle"]
            /\ w_loc' = [w_loc EXCEPT ![t] = NoLoc]
            /\ w_returned' = IF w_loc[t].panicked THEN w_returned ELSE w_loc[t].call
       ELSE /\ w_loc' = [w_loc EXCEPT ![t].seen = w_state]
            /\ w_pc' = [w_pc EXCEPT ![t] = "take"]
            /\ UNCHANGED <<w_state, w_locked, w_returned>>
    /\ UNCHANGED <<w_cell, w_next, w_regs, w_woken, w_replaced, w_owed>>

\* do_register, release failed: waker = (&mut *self.waker.get()).take()
RegisterTake(t) ==
    /\ w_pc[t] = "take"
    /\ w_loc' = [w_loc EXCEPT ![t].waker = w_cell]
    /\ w_cell' = None
    /\ w_pc' = [w_pc EXCEPT ![t] = "swap"]
    /\ UNCHANGED <<w_state, w_locked, w_next, w_regs, w_woken, w_replaced, w_returned,
                   w_owed>>

\* do_register, release failed: self.state.swap(WAITING)
RegisterSwap(t) ==
    /\ w_pc[t] = "swap"
    /\ w_state' = WAITING
    /\ w_locked' = [w_locked EXCEPT ![t] = FALSE]
    /\ w_pc' = [w_pc EXCEPT ![t] = "wake"]
    /\ UNCHANGED <<w_cell, w_loc, w_next, w_regs, w_woken, w_replaced, w_returned, w_owed>>

\* do_register, release failed: the wakers are woken and the call returns.
RegisterWake(t) ==
    /\ w_pc[t] = "wake"
    /\ w_woken' = CountWakes(w_woken, WokenOnRelease(w_loc[t].old_waker, w_loc[t].waker,
                                                     w_loc[t].panicked))
    /\ w_returned' = IF w_loc[t].panicked THEN w_returned ELSE w_loc[t].call
    /\ w_pc' = [w_pc EXCEPT ![t] = "idle"]
    /\ w_loc' = [w_loc EXCEPT ![t] = NoLoc]
    /\ UNCHANGED <<w_state, w_cell, w_locked, w_next, w_regs, w_replaced, w_owed>>

\* wake -> take_waker: state.fetch_or(WAKING). On WAITING the thread holds
\* the cell; otherwise take_waker returns None and wake returns.
WakeFetchOr(t) ==
    /\ w_pc[t] = "idle" /\ w_next <= MaxCalls
    /\ w_next' = w_next + 1
    /\ w_owed' = IF w_returned = 0 THEN w_owed ELSE w_owed \cup {w_returned}
    /\ w_state' = FetchOrWaking(w_state)
    /\ IF GotWakingLock(w_state)
       THEN /\ w_locked' = [w_locked EXCEPT ![t] = TRUE]
            /\ w_pc' = [w_pc EXCEPT ![t] = "w_take"]
            /\ w_loc' = [w_loc EXCEPT ![t] = [NoLoc EXCEPT !.call = w_next]]
       ELSE UNCHANGED <<w_locked, w_pc, w_loc>>
    /\ UNCHANGED <<w_cell, w_regs, w_woken, w_replaced, w_returned>>

\* take_waker: waker = (&mut *self.waker.get()).take()
WakeTake(t) ==
    /\ w_pc[t] = "w_take"
    /\ w_loc' = [w_loc EXCEPT ![t].waker = w_cell]
    /\ w_cell' = None
    /\ w_pc' = [w_pc EXCEPT ![t] = "w_release"]
    /\ UNCHANGED <<w_state, w_locked, w_next, w_regs, w_woken, w_replaced, w_returned,
                   w_owed>>

\* take_waker: state.fetch_and(!WAKING)
WakeRelease(t) ==
    /\ w_pc[t] = "w_release"
    /\ w_state' = FetchAndNotWaking(w_state)
    /\ w_locked' = [w_locked EXCEPT ![t] = FALSE]
    /\ w_pc' = [w_pc EXCEPT ![t] = "w_wake"]
    /\ UNCHANGED <<w_cell, w_loc, w_next, w_regs, w_woken, w_replaced, w_returned, w_owed>>

\* wake: if let Some(waker) = .. { waker.wake() }
WakeWake(t) ==
    /\ w_pc[t] = "w_wake"
    /\ w_woken' = CountWakes(w_woken, w_loc[t].waker)
    /\ w_pc' = [w_pc EXCEPT ![t] = "idle"]
    /\ w_loc' = [w_loc EXCEPT ![t] = NoLoc]
    /\ UNCHANGED <<w_state, w_cell, w_locked, w_next, w_regs, w_replaced, w_returned,
                   w_owed>>

\* The next step of thread t reads or writes the waker cell.
AtCell(t) == w_pc[t] \in {"store", "take", "w_take"}

\* No call is in flight.
Quiescent == \A t \in Threads : w_pc[t] = "idle"

\* ------------------------------------------------------------------------
\* Page-table entries (vmm/src/arch/riscv64.rs)
\* ------------------------------------------------------------------------

\* The addressing modes: Riscv64Sv39, Riscv64Sv48, Riscv64Sv57.
Modes == {"Sv39", "Sv48", "Sv57"}

\* EntryFlags: the bit of each flag.
EntryFlagBit ==
    [VALID |-> 0, READ |-> 1, WRITE |-> 2, EXECUTE |-> 3,
     USER |-> 4, GLOBAL |-> 5, ACCESS |-> 6, DIRTY |-> 7]

\* The bit at position bit of value.
BitSet(value, bit) == (value \div Pow(2, bit)) % 2 = 1

\* From<usize> for EntryFlags: from_bits_truncate keeps the bits that are
\* flags and drops the rest of the entry.
FromBitsTruncate(value) == {f \in DOMAIN EntryFlagBit : BitSet(value, EntryFlagBit[f])}

\* ENTRY_FLAG_DEFAULT_TABLE
ENTRY_FLAG_DEFAULT_TABLE == {"VALID"}

\* EntryFlags::intersects
Intersects(flags, other) == flags \cap other # {}

\* A mutation of Sv39EntryIsLeaf: read-only on the letter of its comment,
\* an entry is a leaf when it has the read flag.
Sv39EntryIsLeafRead(bits) == "READ" \in FromBitsTruncate(bits)

\* <Riscv64Sv39 as Mode>::entry_is_leaf
Sv39EntryIsLeaf(bits) == Intersects(FromBitsTruncate(bits), {"READ", "EXECUTE"})

\* <Riscv64Sv48 as Mode>::entry_is_leaf
Sv48EntryIsLeaf(bits) == Intersects(FromBitsTruncate(bits), {"READ", "EXECUTE"})

\* <Riscv64Sv57 as Mode>::entry_is_leaf
Sv57EntryIsLeaf(bits) == Intersects(FromBitsTruncate(bits), {"READ", "EXECUTE"})

EnIdle ==
    /\ e_bits = 0
    /\ e_leaf = [m \in Modes |-> "none"]

\* M::entry_is_leaf(&entry) for the mode M.
EntryIsLeaf(mode) ==
    /\ e_leaf[mode] = "none"
    /\ e_leaf' = [e_leaf EXCEPT ![mode] =
                    IF CASE mode = "Sv39" -> Sv39EntryIsLeaf(e_bits)
                         [] mode = "Sv48" -> Sv48EntryIsLeaf(e_bits)
                         [] mode = "Sv57" -> Sv57EntryIsLeaf(e_bits)
                    THEN "true" ELSE "false"]
    /\ UNCHANGED e_bits

\* ------------------------------------------------------------------------
\* Panic counts (kernel/src/panic.rs)
\* ------------------------------------------------------------------------

USIZE == Pow(2, UsizeBits)

\* usize subtraction that wraps: AtomicUsize::fetch_sub, and count - 1
\* without overflow checks.
WrappingSub(a, b) == (a + USIZE - b) % USIZE

PnIdle ==
    /\ p_global = 0
    /\ p_local = [c \in Cpus |-> [count |-> 0, in_hook |-> FALSE]]
    /\ p_pc = [c \in Cpus |-> "run"]
    /\ p_depth = [c \in Cpus |-> 0]
    /\ p_begun = 0
    /\ p_query = None

\* panic_count::increase: c.set((count + 1, run_panic_hook))
LocalAfterIncrease(l, run_panic_hook) ==
    [count |-> (l.count + 1) % USIZE, in_hook |-> run_panic_hook]

\* panic_count::increase: GLOBAL_PANIC_COUNT after the call; the function
\* does not touch it.
GlobalAfterIncrease(g) == g

\* panic_count::is_zero_slow_path on CPU c
is_zero_slow_path(c) == p_local[c].count = 0

\* panic_count::count_is_zero on CPU c
count_is_zero(c) == IF p_global = 0 THEN TRUE ELSE is_zero_slow_path(c)

\* panicking() on CPU c
panicking(c) == ~count_is_zero(c)

\* begin_panic_handler on CPU c up to the panic hook: panic_count::increase(true);
\* a panic inside the hook aborts the CPU.
Increase(c) ==
    /\ p_pc[c] \in {"run", "hook"}
    /\ p_begun < MaxPanics
    /\ p_begun' = p_begun + 1
    /\ p_query' = None
    /\ IF p_local[c].in_hook
       THEN /\ p_pc' = [p_pc EXCEPT ![c] = "aborted"]
            /\ UNCHANGED <<p_global, p_local, p_depth>>
       ELSE /\ p_local' = [p_local EXCEPT ![c] = LocalAfterIncrease(p_local[c], TRUE)]
            /\ p_global' = GlobalAfterIncrease(p_global)
            /\ p_pc' = [p_pc EXCEPT ![c] = "hook"]
            /\ p_depth' = [p_depth EXCEPT ![c] = @ + 1]

\* begin_panic_handler on CPU c after the hook: finished_panic_hook, then
\* abort if the panic cannot unwind, else rust_panic starts unwinding.
FinishedPanicHook(c, can_unwind) ==
    /\ p_pc[c] = "hook"
    /\ p_local' = [p_local EXCEPT ![c].in_hook = FALSE]
    /\ p_pc' = [p_pc EXCEPT ![c] = IF can_unwind THEN "run" ELSE "aborted"]
    /\ p_query' = None
    /\ UNCHANGED <<p_global, p_depth, p_begun>>

\* resume_unwind(payload) on CPU c: rust_panic starts unwinding; no count is
\* touched.
ResumeUnwind(c) ==
    /\ p_pc[c] = "run"
    /\ p_begun < MaxPanics
    /\ p_begun' = p_begun + 1
    /\ p_depth' = [p_depth EXCEPT ![c] = @ + 1]
    /\ p_query' = None
    /\ UNCHANGED <<p_global, p_local, p_pc>>

\* catch_unwind on CPU c catches the panic that is unwinding:
\* panic_count::decrease. With the local count at 0, count - 1 overflows: it
\* wraps in a build without overflow checks (checked = FALSE) and panics in
\* one with them, which begins a panic in place of the one caught.
Decrease(c, checked) ==
    /\ p_pc[c] = "run"
    /\ p_depth[c] > 0
    /\ p_global' = WrappingSub(p_global, 1)
    /\ p_query' = None
    /\ UNCHANGED p_begun
    /\ IF p_local[c].count = 0 /\ checked
       THEN /\ p_local' = [p_local EXCEPT ![c] = LocalAfterIncrease(p_local[c], TRUE)]
            /\ p_pc' = [p_pc EXCEPT ![c] = "hook"]
            /\ UNCHANGED p_depth
       ELSE /\ p_local' = [p_local EXCEPT ![c] =
                              [count |-> WrappingSub(p_local[c].count, 1), in_hook |-> FALSE]]
            /\ p_depth' = [p_depth EXCEPT ![c] = @ - 1]
            /\ UNCHANGED p_pc

\* CPU c asks panicking().
Panicking(c) ==
    /\ p_pc[c] # "aborted"
    /\ p_query' = Some([cpu |-> c, ret |-> panicking(c)])
    /\ UNCHANGED <<p_global, p_local, p_pc, p_depth, p_begun>>

\* ------------------------------------------------------------------------
\* CPU-local destructors (cpu-local/src/destructors.rs)
\* ------------------------------------------------------------------------

DtIdle ==
    /\ d_list = <<>>
    /\ d_borrowed = FALSE
    /\ d_pc = "idle"
    /\ d_ran = <<>>
    /\ d_next = 1
    /\ d_aborted = FALSE

\* A mutation of BorrowedDuringDtor: the borrow is held across dtor(t).
BorrowedDuringDtorKept == TRUE

\* run: drop(dtors) before dtor(t): DTORS is not borrowed during the call.
BorrowedDuringDtor == FALSE

\* register(t, dtor), called before run or by the destructor that is running:
\* try_borrow_mut, abort if it fails, else push.
Register ==
    /\ d_pc \in {"idle", "call"}
    /\ d_next <= MaxDtors
    /\ IF d_borrowed
       THEN /\ d_aborted' = TRUE
            /\ d_pc' = "aborted"
            /\ UNCHANGED <<d_list, d_borrowed, d_ran, d_next>>
       ELSE /\ d_list' = Append(d_list, d_next)
            /\ d_next' = d_next + 1
            /\ UNCHANGED <<d_borrowed, d_pc, d_ran, d_aborted>>

\* run, top of the loop: DTORS.borrow_mut(), which panics when DTORS is
\* borrowed.
RunBorrow ==
    /\ d_pc \in {"idle", "loop"}
    /\ IF d_borrowed
       THEN /\ d_aborted' = TRUE
            /\ d_pc' = "aborted"
            /\ UNCHANGED d_borrowed
       ELSE /\ d_borrowed' = TRUE
            /\ d_pc' = "pop"
            /\ UNCHANGED d_aborted
    /\ UNCHANGED <<d_list, d_ran, d_next>>

\* run: dtors.pop(); Some: drop the borrow and invoke dtor(t); None: free the
\* list and leave the loop.
RunPop ==
    /\ d_pc = "pop"
    /\ IF d_list # <<>>
       THEN /\ d_list' = SubSeq(d_list, 1, Len(d_list) - 1)
            /\ d_ran' = Append(d_ran, d_list[Len(d_list)])
            /\ d_borrowed' = BorrowedDuringDtor
            /\ d_pc' = "call"
       ELSE /\ d_list' = <<>>
            /\ d_borrowed' = FALSE
            /\ d_pc' = "done"
            /\ UNCHANGED d_ran
    /\ UNCHANGED <<d_next, d_aborted>>

\* dtor(t) returns to the loop.
DtorReturn ==
    /\ d_pc = "call"
    /\ d_pc' = "loop"
    /\ UNCHANGED <<d_list, d_borrowed, d_ran, d_next, d_aborted>>

\* A step of run once it has been called.
RunStep == d_pc # "idle" /\ (RunBorrow \/ RunPop \/ DtorReturn)

ExIdle == EnIdle /\ PnIdle /\ DtIdle

\* ------------------------------------------------------------------------
\* Specifications
\* ------------------------------------------------------------------------

InitFrames ==
    /\ FlIdle /\ fences = <<>> /\ HeapIdle /\ MmIdle /\ LkIdle /\ WkIdle /\ ExIdle /\ active = 0
    /\ fa_used = {}
    /\ fa_total = TotalFrames
    /\ fa_live = <<>>
    /\ fa_result = [op |-> "none", ok |-> TRUE, base |-> 0, frames |-> 0]

NextFrames ==
    \/ \E n \in 2..MaxAllocFrames : AllocateFrames(n) /\ UNCHANGED <<flVars, fences, heapVars, mmVars, lkVars, wkVars, exVars, active>>
    \/ AllocateFrame /\ UNCHANGED <<flVars, fences, heapVars, mmVars, lkVars, wkVars, exVars, active>>
    \/ \E i \in DOMAIN fa_live : DeallocateFrames(i) /\ UNCHANGED <<flVars, fences, heapVars, mmVars, lkVars, wkVars, exVars, active>>
    \/ \E i \in DOMAIN fa_live : DeallocateFrame(i) /\ UNCHANGED <<flVars, fences, heapVars, mmVars, lkVars, wkVars, exVars, active>>

SpecFrames == InitFrames /\ [][NextFrames]_vars

InitFlush == FaIdle /\ FlIdle /\ fences = <<>> /\ HeapIdle /\ MmIdle /\ LkIdle /\ WkIdle /\ ExIdle /\ active = 0

NextFlush ==
    \/ \E a \in Asids : FlushEmpty(a) /\ UNCHANGED <<faVars, fences, heapVars, mmVars, lkVars, wkVars, exVars, active>>
    \/ \E a \in Asids, r \in FlushRanges, hs \in SUBSET Harts :
          FlushNew(a, r, hs) /\ UNCHANGED <<faVars, fences, heapVars, mmVars, lkVars, wkVars, exVars, active>>
    \/ \E a \in Asids, r \in FlushRanges, hs \in SUBSET Harts :
          ExtendRange(a, r, hs) /\ UNCHANGED <<faVars, fences, heapVars, mmVars, lkVars, wkVars, exVars, active>>
    \/ \E ok \in BOOLEAN : FlushFlush(ok) /\ UNCHANGED <<faVars, heapVars, mmVars, lkVars, wkVars, exVars, active>>
    \/ FlushIgnore /\ UNCHANGED <<faVars, heapVars, mmVars, lkVars, wkVars, exVars, active>>

SpecFlush == InitFlush /\ [][NextFlush]_vars

\* The kernel heap on a machine with k * PAGE_SIZE frames.
InitHeap ==
    /\ FlIdle /\ fences = <<>> /\ HeapIdle /\ MmIdle /\ LkIdle /\ WkIdle /\ ExIdle /\ active = 0
    /\ fa_used = {}
    /\ fa_total \in {k * PAGE_SIZE : k \in 1..MaxFrameK}
    /\ fa_live = <<>>
    /\ fa_result = [op |-> "none", ok |-> TRUE, base |-> 0, frames |-> 0]

NextHeap ==
    \/ \E hr \in HeapRanges, ok \in BOOLEAN : HeapInit(hr, ok) /\ UNCHANGED <<flVars, mmVars, lkVars, wkVars, exVars, active>>
    \/ \E sz \in LayoutSizes, ok \in BOOLEAN : HandleOom(sz, ok) /\ UNCHANGED <<flVars, mmVars, lkVars, wkVars, exVars, active>>

SpecHeap == InitHeap /\ [][NextHeap]_vars

\* A call that is neither a trap nor a copy leaves no such record.
Untrapped == trap_result' = NoTrap /\ copy_result' = NoCopy

\* One user address space, empty, on a machine with MmapFrames frames of
\* which the rest of the kernel holds the first `taken`.
InitMmapWith(taken) ==
    /\ FlIdle /\ fences = <<>> /\ HeapIdle /\ MmIdle /\ LkIdle /\ WkIdle /\ ExIdle
    /\ fa_used = SetBits({}, 0, taken)
    /\ fa_total = MmapFrames
    /\ fa_live = IF taken = 0 THEN <<>> ELSE <<[base |-> FrameAddr(0), frames |-> taken]>>
    /\ fa_result = [op |-> "none", ok |-> TRUE, base |-> 0, frames |-> 0]

InitMmap == \E taken \in 0..MaxTaken : InitMmapWith(taken) /\ active = 0

NextMmap ==
    \/ \E len \in MmapLens, align \in MmapAligns :
          NewZeroed(len, align) /\ trap_result' = NoTrap /\ copy_result' = NoCopy /\ UNCHANGED <<flVars, heapVars, lkVars, wkVars, exVars, active>>
    \/ NewEmpty /\ Untrapped /\ UNCHANGED <<flVars, heapVars, lkVars, wkVars, exVars, active>>
    \/ \E h \in DOMAIN mmaps, ok \in BOOLEAN :
          MakeExecutable(h, ok) /\ Untrapped /\ UNCHANGED <<flVars, heapVars, lkVars, wkVars, exVars, active>>
    \/ \E h \in DOMAIN mmaps, ok \in BOOLEAN :
          MakeReadonly(h, ok) /\ Untrapped /\ UNCHANGED <<flVars, heapVars, lkVars, wkVars, exVars, active>>
    \/ \E h \in DOMAIN mmaps, perms \in ProtectRequests, ok \in BOOLEAN :
          Protect(h, perms, ok) /\ Untrapped /\ UNCHANGED <<flVars, heapVars, lkVars, wkVars, exVars, active>>
    \/ \E trap \in Traps, tval \in FaultAddrs, in_task \in BOOLEAN, ok \in BOOLEAN :
          handle_page_fault(trap, tval, in_task, ok) /\ copy_result' = NoCopy
             /\ UNCHANGED <<flVars, heapVars, lkVars, wkVars, exVars, active>>
    \/ \E h \in DOMAIN mmaps, ok \in BOOLEAN :
          Unmap(h, ok) /\ Untrapped /\ UNCHANGED <<flVars, heapVars, lkVars, wkVars, exVars, active>>

SpecMmap == InitMmap /\ [][NextMmap]_vars

\* The user address space with the accesses to its memory: regions are
\* mapped, faulted in, copied from and to, made read-only and unmapped.
\* No frame is held by the rest of the kernel.
InitAccess == InitMmapWith(0) /\ active = UserAsid

NextAccess ==
    \/ \E len \in AccessLens :
          NewZeroed(len, PAGE_SIZE) /\ trap_result' = NoTrap /\ copy_result' = NoCopy
             /\ UNCHANGED <<flVars, heapVars, lkVars, wkVars, exVars, active>>
    \/ \E h \in DOMAIN mmaps :
          MakeReadonly(h, TRUE) /\ Untrapped /\ UNCHANGED <<flVars, heapVars, lkVars, wkVars, exVars, active>>
    \/ \E trap \in {"LoadPageFault", "StorePageFault"}, tval \in UserPageAddrs, ok \in BOOLEAN :
          handle_page_fault(trap, tval, TRUE, ok) /\ copy_result' = NoCopy
             /\ UNCHANGED <<flVars, heapVars, lkVars, wkVars, exVars, active>>
    \/ \E h \in DOMAIN mmaps, r \in CopyRanges, t \in CopyTraps, clamp \in BOOLEAN,
           ok \in BOOLEAN :
          copy_from_userspace(h, r, t[1], t[2], clamp, ok)
             /\ trap_result' = NoTrap
             /\ UNCHANGED <<flVars, heapVars, lkVars, wkVars, exVars>>
    \/ \E h \in DOMAIN mmaps, r \in CopyRanges, t \in CopyTraps, clamp \in BOOLEAN,
           ok \in BOOLEAN :
          copy_to_userspace(h, r, t[1], t[2], clamp, ok)
             /\ trap_result' = NoTrap
             /\ UNCHANGED <<flVars, heapVars, lkVars, wkVars, exVars>>
    \/ \E h \in DOMAIN mmaps :
          Unmap(h, TRUE) /\ Untrapped /\ UNCHANGED <<flVars, heapVars, lkVars, wkVars, exVars, active>>

SpecAccess == InitAccess /\ [][NextAccess]_vars

\* The user address space and the copies from and to its memory, made by a
\* CPU on which the kernel's address space or the user's is active.
InitCopy == InitMmapWith(0) /\ active \in {0, UserAsid}

NextCopy ==
    \/ \E len \in AccessLens :
          NewZeroed(len, PAGE_SIZE) /\ trap_result' = NoTrap /\ copy_result' = NoCopy
             /\ UNCHANGED <<flVars, heapVars, lkVars, wkVars, exVars, active>>
    \/ \E h \in DOMAIN mmaps, r \in CopyRanges, clamp \in BOOLEAN :
          copy_from_userspace(h, r, "none", "none", clamp, TRUE)
             /\ trap_result' = NoTrap
             /\ UNCHANGED <<flVars, heapVars, lkVars, wkVars, exVars>>
    \/ \E h \in DOMAIN mmaps, r \in CopyRanges, clamp \in BOOLEAN :
          copy_to_userspace(h, r, "none", "none", clamp, TRUE)
             /\ trap_result' = NoTrap
             /\ UNCHANGED <<flVars, heapVars, lkVars, wkVars, exVars>>
    \/ \E h \in DOMAIN mmaps :
          Unmap(h, TRUE) /\ Untrapped /\ UNCHANGED <<flVars, heapVars, lkVars, wkVars, exVars, active>>

SpecCopy == InitCopy /\ [][NextCopy]_vars

\* The CPUs, all idle, no lock held.
InitLocks == FaIdle /\ FlIdle /\ fences = <<>> /\ HeapIdle /\ MmIdle /\ LkIdle /\ WkIdle /\ ExIdle /\ active = 0

NextLocks ==
    \/ \E c \in Cpus, name \in PathNames :
          Enter(c, name) /\ UNCHANGED <<faVars, flVars, fences, heapVars, mmVars, wkVars, exVars, active>>
    \/ \E c \in Cpus : Acquire(c) /\ UNCHANGED <<faVars, flVars, fences, heapVars, mmVars, wkVars, exVars, active>>
    \/ \E c \in Cpus : Release(c) /\ UNCHANGED <<faVars, flVars, fences, heapVars, mmVars, wkVars, exVars, active>>
    \/ \E c \in Cpus : MutateTable(c) /\ UNCHANGED <<faVars, flVars, fences, heapVars, mmVars, wkVars, exVars, active>>
    \/ \E c \in Cpus : FlushTlb(c) /\ UNCHANGED <<faVars, flVars, fences, heapVars, mmVars, wkVars, exVars, active>>

SpecLocks == InitLocks /\ [][NextLocks]_vars

\* One AtomicWaker, as new() leaves it, shared by the threads.
InitWaker == FaIdle /\ FlIdle /\ fences = <<>> /\ HeapIdle /\ MmIdle /\ LkIdle /\ WkIdle /\ ExIdle /\ active = 0

NextWaker ==
    \/ \E t \in Threads : RegisterCas(t) /\ UNCHANGED <<faVars, flVars, fences, heapVars, mmVars, lkVars, exVars, active>>
    \/ \E t \in Threads, panics \in BOOLEAN :
          RegisterIntoWaker(t, panics) /\ UNCHANGED <<faVars, flVars, fences, heapVars, mmVars, lkVars, exVars, active>>
    \/ \E t \in Threads : RegisterStore(t) /\ UNCHANGED <<faVars, flVars, fences, heapVars, mmVars, lkVars, exVars, active>>
    \/ \E t \in Threads : RegisterRelease(t) /\ UNCHANGED <<faVars, flVars, fences, heapVars, mmVars, lkVars, exVars, active>>
    \/ \E t \in Threads : RegisterTake(t) /\ UNCHANGED <<faVars, flVars, fences, heapVars, mmVars, lkVars, exVars, active>>
    \/ \E t \in Threads : RegisterSwap(t) /\ UNCHANGED <<faVars, flVars, fences, heapVars, mmVars, lkVars, exVars, active>>
    \/ \E t \in Threads : RegisterWake(t) /\ UNCHANGED <<faVars, flVars, fences, heapVars, mmVars, lkVars, exVars, active>>
    \/ \E t \in Threads : WakeFetchOr(t) /\ UNCHANGED <<faVars, flVars, fences, heapVars, mmVars, lkVars, exVars, active>>
    \/ \E t \in Threads : WakeTake(t) /\ UNCHANGED <<faVars, flVars, fences, heapVars, mmVars, lkVars, exVars, active>>
    \/ \E t \in Threads : WakeRelease(t) /\ UNCHANGED <<faVars, flVars, fences, heapVars, mmVars, lkVars, exVars, active>>
    \/ \E t \in Threads : WakeWake(t) /\ UNCHANGED <<faVars, flVars, fences, heapVars, mmVars, lkVars, exVars, active>>

SpecWaker == InitWaker /\ [][NextWaker]_vars

\* One page-table entry of any bits, classified by each mode.
InitEntry ==
    /\ FaIdle /\ FlIdle /\ fences = <<>> /\ HeapIdle /\ MmIdle /\ LkIdle /\ WkIdle
    /\ e_bits \in 0..MaxEntryBits
    /\ e_leaf = [m \in Modes |-> "none"]
    /\ PnIdle /\ DtIdle /\ active = 0

NextEntry ==
    \/ EntryIsLeaf("Sv39") /\ UNCHANGED <<faVars, flVars, fences, heapVars, mmVars, lkVars, wkVars, pnVars, dtVars, active>>
    \/ EntryIsLeaf("Sv48") /\ UNCHANGED <<faVars, flVars, fences, heapVars, mmVars, lkVars, wkVars, pnVars, dtVars, active>>
    \/ EntryIsLeaf("Sv57") /\ UNCHANGED <<faVars, flVars, fences, heapVars, mmVars, lkVars, wkVars, pnVars, dtVars, active>>

SpecEntry == InitEntry /\ [][NextEntry]_vars

\* The CPUs panic, catch and resume panics, and ask panicking().
InitPanic ==
    /\ FaIdle /\ FlIdle /\ fences = <<>> /\ HeapIdle /\ MmIdle /\ LkIdle /\ WkIdle
    /\ EnIdle /\ PnIdle /\ DtIdle /\ active = 0

NextPanic ==
    \/ \E c \in Cpus : Increase(c) /\ UNCHANGED <<faVars, flVars, fences, heapVars, mmVars, lkVars, wkVars, enVars, dtVars, active>>
    \/ \E c \in Cpus, can_unwind \in BOOLEAN :
          FinishedPanicHook(c, can_unwind) /\ UNCHANGED <<faVars, flVars, fences, heapVars, mmVars, lkVars, wkVars, enVars, dtVars, active>>
    \/ \E c \in Cpus : ResumeUnwind(c) /\ UNCHANGED <<faVars, flVars, fences, heapVars, mmVars, lkVars, wkVars, enVars, dtVars, active>>
    \/ \E c \in Cpus, checked \in BOOLEAN :
          Decrease(c, checked) /\ UNCHANGED <<faVars, flVars, fences, heapVars, mmVars, lkVars, wkVars, enVars, dtVars, active>>
    \/ \E c \in Cpus : Panicking(c) /\ UNCHANGED <<faVars, flVars, fences, heapVars, mmVars, lkVars, wkVars, enVars, dtVars, active>>

SpecPanic == InitPanic /\ [][NextPanic]_vars

\* One CPU registers destructors and runs them at exit. run is a loop of one
\* thread: once called it goes on until it returns or aborts.
InitDtors ==
    /\ FaIdle /\ FlIdle /\ fences = <<>> /\ HeapIdle /\ MmIdle /\ LkIdle /\ WkIdle
    /\ EnIdle /\ PnIdle /\ DtIdle /\ active = 0

NextDtors ==
    \/ Register /\ UNCHANGED <<faVars, flVars, fences, heapVars, mmVars, lkVars, wkVars, enVars, pnVars, active>>
    \/ RunBorrow /\ UNCHANGED <<faVars, flVars, fences, heapVars, mmVars, lkVars, wkVars, enVars, pnVars, active>>
    \/ RunPop /\ UNCHANGED <<faVars, flVars, fences, heapVars, mmVars, lkVars, wkVars, enVars, pnVars, active>>
    \/ DtorReturn /\ UNCHANGED <<faVars, flVars, fences, heapVars, mmVars, lkVars, wkVars, enVars, pnVars, active>>

SpecDtors == InitDtors /\ [][NextDtors]_vars /\ WF_dtVars(RunStep)

\* ------------------------------------------------------------------------
\* Claims
\* ------------------------------------------------------------------------

LiveDisjoint(a, b) == FrameRange(a.base, a.frames) \cap FrameRange(b.base, b.frames) = {}

\* C1: frame allocator exclusivity: no two live allocations (allocated and
\* not yet deallocated) cover overlapping frame ranges, and each lies inside
\* the managed frames.
C1_Exclusive ==
    /\ \A i, j \in DOMAIN fa_live : i # j => LiveDisjoint(fa_live[i], fa_live[j])
    /\ \A i \in DOMAIN fa_live :
          /\ fa_live[i].base % PAGE_SIZE = 0
          /\ FrameRange(fa_live[i].base, fa_live[i].frames) \subseteq 0..(fa_total - 1)

\* Two allocations are live, the second made after a deallocation left a hole
\* below the first.
C1_Witness ==
    /\ Len(fa_live) >= 2
    /\ fa_result.op = "allocate" /\ fa_result.ok
    /\ fa_live[Len(fa_live)].base < fa_live[1].base

\* C2: frame_usage().used equals the sum of the frame counts of the live
\* allocations; a failed allocate_frames changes nothing.
C2_UsedIsSum ==
    frame_usage.used = SumSeq([i \in DOMAIN fa_live |-> fa_live[i].frames])

\* An allocation failed while others are live.
C2_Witness ==
    /\ fa_result.op = "allocate" /\ ~fa_result.ok
    /\ Len(fa_live) >= 2
    /\ frame_usage.used < frame_usage.total

\* C3: after any sequence of map, protect, page_fault and unmap operations
\* the regions of the address space are non-empty, lie inside the user range,
\* are ordered by start address and do not overlap.
C3_RegionsDisjointSorted ==
    /\ \A i \in DOMAIN regions :
          /\ regions[i].start < regions[i].end
          /\ UserStart <= regions[i].start /\ regions[i].end <= UserEnd
    /\ \A i, j \in DOMAIN regions : i < j => regions[i].end <= regions[j].start

\* A map placed its region into the gap an unmap left in front of another
\* region.
C3_Witness ==
    /\ Len(regions) >= 2
    /\ mm_result.op = "new_zeroed" /\ mm_result.ok
    /\ mm_result.start = regions[1].start
    /\ mmaps[Len(mmaps)].start = regions[1].start

WriteExecute(perms) == {"WRITE", "EXECUTE"} \subseteq perms

C10_ExtendIsUnion ==
    (fl_result.op = "extend_range" /\ fl_result.ok) =>
        LET o == Unwrap(fl_result.other)
        IN  IF IsSome(fl_result.before)
            THEN LET t == Unwrap(fl_result.before)
                 IN  fl_range = Some(Range(Min({t.start, o.start}), Max({t.end, o.end})))
            ELSE fl_range = Some(o)

\* C11: while a batch is open, its pending range covers every range
\* recorded into it since it was created: the range of Flush::new and the
\* range of every successful extend_range.
C11_PendingCoversTouched ==
    fl_state = "open" =>
        \A r \in fl_touched :
            /\ IsSome(fl_range)
            /\ Unwrap(fl_range).start <= r.start
            /\ r.end <= Unwrap(fl_range).end

\* C12: extend_range with an asid other than the batch's returns
\* AddressSpaceMismatch { expected: batch asid, found: given asid } and
\* leaves the asid and the pending range of the batch as they were.
C12_MismatchIsError ==
    [][(fl_state = "open" /\ fl_result'.op = "extend_range" /\ fl_result'.asid # fl_asid)
          => /\ ~fl_result'.ok
             /\ fl_result'.err = Some([error |-> "AddressSpaceMismatch",
                                       expected |-> fl_asid, found |-> fl_result'.asid])
             /\ fl_asid' = fl_asid
             /\ fl_range' = fl_range]_vars

\* extend_range was refused on a batch that has a pending range.
C12_Witness ==
    /\ fl_state = "open"
    /\ fl_result.op = "extend_range" /\ ~fl_result.ok
    /\ fl_result.asid # fl_asid
    /\ IsSome(fl_range)

\* C13: flush on a batch with a pending range issues exactly one
\* invalidation request, for the batch's asid, to all harts, with base =
\* pending.start and size = pending.end - pending.start, and consumes the
\* batch.
C13_FlushIssuesOneRequest ==
    [][(fl_state = "open" /\ fl_result'.op = "flush" /\ IsSome(fl_range))
          => /\ Len(fences') = Len(fences) + 1
             /\ SubSeq(fences', 1, Len(fences)) = fences
             /\ LET req == fences'[Len(fences')]
                IN  /\ req.asid = fl_asid
                    /\ AddressedHarts(req) = Harts
                    /\ req.base = Unwrap(fl_range).start
                    /\ req.size = Unwrap(fl_range).end - Unwrap(fl_range).start
             /\ fl_state' = "consumed"]_vars

\* A batch whose pending range starts above address 0 was flushed.
C13_Witness ==
    /\ fl_state = "consumed"
    /\ fl_result.op = "flush" /\ fl_result.ok
    /\ IsSome(fl_result.before) /\ Unwrap(fl_result.before).start > 0
    /\ Len(fences) = 1

\* C14: flush on a batch without a pending range issues no invalidation
\* request and returns Ok.
C14_EmptyFlushIsOk ==
    [][(fl_state = "open" /\ fl_result'.op = "flush" /\ ~IsSome(fl_range))
          => (fences' = fences /\ fl_result'.ok /\ fl_state' = "consumed")]_vars

\* A batch made by Flush::empty was flushed.
C14_Witness ==
    /\ fl_state = "consumed"
    /\ fl_result.op = "flush"
    /\ ~IsSome(fl_result.before)
    /\ fences = <<>>

\* C15: once flush has returned Ok for a batch, no hart still holds a
\* translation, cached before the recorded mutations, of an address those
\* mutations touched.
C15_NoStaleAfterFlush ==
    (fl_state = "consumed" /\ fl_result.op = "flush" /\ fl_result.ok)
        => \A e \in stale :
              ~(\E r \in fl_touched : e.asid = fl_asid /\ r.start <= e.page /\ e.page < r.end)

\* C16: every page-table mutation through the Mapper, with its Flush
\* accumulation, is made by a CPU that holds the lock of the address space
\* it mutates, on the page-fault path, the user-mmap paths and the kernel
\* heap growth path.
C16_MutationUnderLock ==
    last.op = "mutate" => owner[AddressSpaceLock(last.asid)] = last.cpu

\* C17: between a page-table mutation and the return of its flush no other
\* CPU mutates the same address space: at any moment at most one CPU has
\* mutated an address space without having flushed.
C17_FlushBeforeOtherMutation ==
    \A a \in DOMAIN unflushed : Cardinality(unflushed[a]) <= 1

\* C18: no deadlock is reachable in any interleaving of heap allocation
\* (with and without growth), page-fault handling and frame allocation:
\* every CPU acquires its locks in the order HeapLock -> AddressSpace ->
\* FrameAllocator, and no set of CPUs spins on locks held among themselves
\* (which includes the OOM handler taking the allocator's lock again).
C18_NoDeadlock ==
    /\ ~Deadlocked
    /\ \A c \in Cpus : \A i, j \in DOMAIN held[c] :
          i < j => LockRank(held[c][i]) < LockRank(held[c][j])

\* A CPU is inside the OOM handler, holding HeapLock and FrameAllocator,
\* while another has faulted, holds its address space and spins on the
\* frame allocator.
C18_Witness ==
    \E c, d \in Cpus :
        /\ cpu_path[c] = "KernelAllocOom" /\ held[c] = <<"HeapLock", "FrameAllocator">>
        /\ cpu_path[d] = "HandlePageFault" /\ held[d] = <<"UserAddressSpace">>
        /\ Spinning(d)

\* C19: idempotent fault correction: when the page fault that was just
\* corrected is delivered again (same address, same access), the handler
\* reports it corrected again without mapping the page, without taking a
\* frame and without issuing a fence; regions, page table and frame usage
\* stay as the first correction left them.
C19_RedeliveryIsNoOp ==
    [][(/\ trap_result.flow = "Break" /\ mm_result.op = "page_fault" /\ mm_result.ok
        /\ trap_result'.cause = trap_result.cause
        /\ trap_result'.tval = trap_result.tval
        /\ mm_result'.op = "page_fault")
          => /\ trap_result'.flow = "Break"
             /\ mm_result'.ok /\ ~mm_result'.mapped /\ ~mm_result'.fenced
             /\ regions' = regions /\ upt' = upt /\ utables' = utables
             /\ fa_used' = fa_used /\ fa_live' = fa_live
             /\ fences' = fences]_vars

\* A store fault was corrected by mapping a frame and then delivered again:
\* the second delivery mapped nothing.
C19_Witness ==
    /\ trap_result.cause = "StorePageFault" /\ trap_result.flow = "Break"
    /\ mm_result.op = "page_fault" /\ mm_result.ok /\ ~mm_result.mapped
    /\ RoundDown(trap_result.tval, PAGE_SIZE) \in DOMAIN upt
    /\ Len(fa_live) >= 1

\* The permission an exception asks of the region it faults in.
Needs(cause) ==
    CASE cause = "LoadPageFault" -> {"READ"}
      [] cause = "StorePageFault" -> {"WRITE"}
      [] cause = "InstructionPageFault" -> {"EXECUTE"}
      [] OTHER -> {}

\* C20: a page fault whose access the region containing the faulting address
\* does not permit is never corrected: page_fault returns a permission
\* violation, nothing is mapped, no frame is taken, and the trap handler
\* reports the fault as not handled.
C20_ViolationNotCorrected ==
    [][(/\ mm_result'.op = "page_fault"
        /\ RegionAt(regions, trap_result'.tval) # 0
        /\ ~(Needs(trap_result'.cause)
               \subseteq regions[RegionAt(regions, trap_result'.tval)].perms))
          => /\ trap_result'.flow = "Continue"
             /\ ~mm_result'.ok /\ mm_result'.err = "PermissionViolation"
             /\ ~mm_result'.mapped
             /\ regions' = regions /\ upt' = upt /\ utables' = utables
             /\ fa_used' = fa_used /\ fa_live' = fa_live
             /\ fences' = fences]_vars

\* A store faulted in a committed region that make_executable or
\* make_readonly had made non-writable, and was refused.
C20_Witness ==
    /\ trap_result.cause = "StorePageFault" /\ trap_result.flow = "Continue"
    /\ mm_result.op = "page_fault" /\ mm_result.err = "PermissionViolation"
    /\ \E i \in DOMAIN regions :
          /\ regions[i].start <= trap_result.tval /\ trap_result.tval < regions[i].end
          /\ regions[i].set_by \in {"make_executable", "make_readonly"}
          /\ "WRITE" \notin regions[i].perms
          /\ RoundDown(trap_result.tval, PAGE_SIZE) \in DOMAIN upt

\* C21: the example scenario. In an empty user address space the map of
\* one page (new_zeroed) succeeds with a page-aligned start A and read-write
\* permissions, and nothing is mapped yet; a store page fault at A that
\* follows directly is corrected (unless the fence request is refused by the
\* SBI): exactly one page, A, is mapped, onto a frame that was free, with
\* the region's permissions, and that frame holds zeroes.
C21_FirstStoreFaultZeroFills ==
    [][/\ (/\ mm_result'.op = "new_zeroed"
           /\ IsSome(before') /\ Unwrap(before').regions = <<>>)
          => /\ mm_result'.ok
             /\ mm_result'.start % PAGE_SIZE = 0
             /\ mm_result'.perms = {"READ", "WRITE", "USER"}
             /\ Len(regions') = 1 /\ regions'[1].start = mm_result'.start
             /\ regions'[1].perms = {"READ", "WRITE", "USER"}
             /\ upt' = upt
       /\ (/\ mm_result.op = "new_zeroed" /\ mm_result.ok
           /\ IsSome(before) /\ Unwrap(before).regions = <<>>
           /\ trap_result'.cause = "StorePageFault" /\ trap_result'.in_task
           /\ trap_result'.tval = mm_result.start
           /\ mm_result'.err # "Sbi")
          => /\ trap_result'.flow = "Break"
             /\ mm_result'.ok /\ mm_result'.mapped
             /\ DOMAIN upt' = DOMAIN upt \cup {mm_result.start}
             /\ mm_result.start \notin DOMAIN upt
             /\ upt'[mm_result.start].flags = {"READ", "WRITE", "USER", "VALID"}
             /\ ~BitIsSet(fa_used, FrameIndex(upt'[mm_result.start].phys))
             /\ BitIsSet(fa_used', FrameIndex(upt'[mm_result.start].phys))
             /\ upt'[mm_result.start].phys \notin nonzero']_vars

\* The only region of the address space starts at A, a store fault at A was
\* just corrected by a mapping, and the frame behind A had held other data
\* before (every frame starts with unknown contents).
C21_Witness ==
    /\ Len(regions) = 1 /\ regions[1].set_by = "new_zeroed"
    /\ trap_result.cause = "StorePageFault" /\ trap_result.flow = "Break"
    /\ trap_result.tval = regions[1].start
    /\ mm_result.op = "page_fault" /\ mm_result.mapped
    /\ DOMAIN upt = {regions[1].start}
    /\ upt[regions[1].start].phys \in UserFrames \ nonzero

C23_BreakIffCorrected ==
    trap_result.cause # "none"
       => /\ trap_result.flow \in {"Break", "Continue"}
          /\ (mm_result.op = "page_fault")
               = (/\ trap_result.in_task
                  /\ trap_result.cause \in {"LoadPageFault", "StorePageFault",
                                            "InstructionPageFault"})
          /\ mm_result.op = "page_fault"
               => /\ mm_result.start = trap_result.tval
                  /\ mm_result.perms = Needs(trap_result.cause)
          /\ (trap_result.flow = "Break")
               = (mm_result.op = "page_fault" /\ mm_result.ok)
          /\ (mm_result.op = "page_fault"
                /\ mm_result.err \in {"NotMapped", "PermissionViolation", "OutOfMemory"})
               => trap_result.flow = "Continue"

\* A fault in a mapped region could not be committed for want of a frame
\* and was reported as not corrected.
C23_Witness ==
    /\ trap_result.in_task /\ trap_result.flow = "Continue"
    /\ mm_result.op = "page_fault" /\ mm_result.err = "OutOfMemory"
    /\ RegionAt(regions, trap_result.tval) # 0

\* C24: the range copy_from_userspace/copy_to_userspace hand to the
\* region's commit for the byte range r of a handle is
\* [handle.start + r.start, handle.start + r.end), and it does not extend
\* beyond the end of the handle's region.
C24_CommitsSubRange ==
    copy_result.op # "none"
       => /\ copy_result.handed =
               Some(Range(copy_result.handle.start + copy_result.range.start,
                          copy_result.handle.start + copy_result.range.end))
          /\ Unwrap(copy_result.handed).end <= copy_result.handle.end

\* C25: a trap raised in the course of copy_from_userspace or
\* copy_to_userspace is caught exactly when it is a load or store page
\* fault raised during the raw copy; a caught trap is returned as
\* Error::Trap; a trap raised during the commit is not caught and the call
\* does not return, and one raised after the return is not caught either.
C25_TrapCaughtOnlyInCopy ==
    (copy_result.op # "none" /\ copy_result.trap # "none")
       => /\ copy_result.caught
               = (/\ copy_result.phase = "copy"
                  /\ copy_result.trap \in {"LoadPageFault", "StorePageFault"})
          /\ copy_result.caught => (copy_result.ret = "Err" /\ copy_result.err = "Trap")
          /\ (~copy_result.caught /\ copy_result.phase # "after")
               => copy_result.ret = "none"
          /\ copy_result.phase = "after" => copy_result.ret = "Ok"

\* A store page fault hit the raw copy of copy_to_userspace after the commit
\* had mapped the page, and came back as Error::Trap.
C25_Witness ==
    /\ copy_result.op = "copy_to_userspace"
    /\ copy_result.trap = "StorePageFault" /\ copy_result.phase = "copy"
    /\ copy_result.caught /\ copy_result.err = "Trap"
    /\ copy_result.handle.start \in DOMAIN upt

\* C26: make_executable and make_readonly on a handle made by new_empty
\* return an error and leave the address space as it is.
C26_EmptyProtectFails ==
    [][(/\ mm_result'.op \in {"make_executable", "make_readonly"}
        /\ mm_result'.start = 0)
          => /\ ~mm_result'.ok
             /\ regions' = regions /\ upt' = upt /\ utables' = utables]_vars

\* C27: after make_executable returned Ok on a non-empty handle, its region
\* is recorded as READ|EXECUTE|USER and every page of it is mapped with
\* these flags (no WRITE); after make_readonly returned Ok, READ|USER.
C27_ProtectResultPermissions ==
    \A op \in {"make_executable", "make_readonly"} :
      (mm_result.op = op /\ mm_result.ok /\ mm_result.start # 0)
        => \E i \in DOMAIN regions :
             LET p == IF op = "make_executable" THEN {"READ", "EXECUTE", "USER"}
                      ELSE {"READ", "USER"}
             IN  /\ regions[i].start = mm_result.start
                 /\ regions[i].perms = p
                 /\ \A v \in UserPageAddrs :
                      (regions[i].start <= v /\ v < regions[i].end)
                        => (v \in DOMAIN upt /\ upt[v].flags = p \cup {"VALID"})

\* make_readonly returned Ok on a region of two committed pages.
C27_Witness ==
    /\ mm_result.op = "make_readonly" /\ mm_result.ok /\ mm_result.fenced
    /\ \E i \in DOMAIN regions :
          /\ regions[i].start = mm_result.start
          /\ regions[i].end - regions[i].start = 2 * PAGE_SIZE
          /\ "WRITE" \notin regions[i].perms

\* C28: AtomicWaker mutual exclusion: at most one thread at a time is about
\* to read or write the waker cell, at most one thread at a time holds the
\* state it moved out of WAITING, and a thread touches the cell only while
\* it holds the state (after its WAITING -> REGISTERING or WAITING -> WAKING
\* transition and before its release).
C28_CellExclusive ==
    /\ \A t \in Threads, u \in Threads :
          t # u => /\ ~(AtCell(t) /\ AtCell(u))
                   /\ ~(w_locked[t] /\ w_locked[u])
    /\ \A t \in Threads : AtCell(t) => w_locked[t]
    /\ \A t \in Threads :
          w_locked[t] => /\ w_state # WAITING
                         /\ (w_pc[t] \in {"w_take", "w_release"}) = (w_state = WAKING)

\* A registering thread is about to take the waker out of the cell after a
\* wake call set the WAKING bit during its registration, and another thread
\* is in a call of its own.
C28_Witness ==
    \E t \in Threads, u \in Threads :
        /\ t # u
        /\ w_pc[t] = "take" /\ w_state = REGISTERING + WAKING
        /\ w_pc[u] # "idle"

\* C29: no lost wake-up. No waker is woken twice. When no call is in
\* flight, every register call after whose return a wake call started has
\* had its waker woken, unless a later register replaced it in the cell. A
\* register call that met a concurrent wake (its first compare-exchange
\* found WAKING, or its release found the WAKING bit set) and whose
\* into_waker did not panic has had its waker woken exactly once when it
\* returns.
C29_NoLostWakeup ==
    /\ [](\A c \in CallIds : w_woken[c] <= 1)
    /\ [](Quiescent => \A c \in w_owed : w_woken[c] = 1 \/ c \in w_replaced)
    /\ [][/\ \A t \in Threads :
               (w_pc[t] = "wake" /\ w_pc'[t] = "idle" /\ ~w_loc[t].panicked)
                  => w_woken'[w_loc[t].call] = 1
          /\ (w_state = WAKING /\ w_regs' # w_regs) => w_woken'[w_next] = 1]_vars

\* A registering thread found the WAKING bit set at its release and is
\* about to wake its own waker, after an earlier registration was woken by
\* a wake call that started after that registration had returned.
C29_Witness ==
    \E t \in Threads, c \in w_owed :
        /\ w_pc[t] = "wake" /\ ~w_loc[t].panicked
        /\ w_loc[t].waker = Some(w_loc[t].call)
        /\ w_woken[c] = 1 /\ c \notin w_replaced

\* C30: as long as register has not been called, wake is a no-op: no waker
\* is woken, the cell stays empty, and the state is WAITING again once the
\* wake calls have returned; the first register that follows obtains the
\* cell.
C30_WakeBeforeRegisterIsNoOp ==
    /\ [](w_regs = {}
            => /\ w_cell = None
               /\ \A c \in CallIds : w_woken[c] = 0
               /\ w_state \in {WAITING, WAKING}
               /\ Quiescent => w_state = WAITING)
    /\ [][(w_regs = {} /\ w_next > 1 /\ Quiescent /\ w_regs' # {})
            => /\ w_state' = REGISTERING
               /\ \E t \in Threads : w_pc'[t] = "into_waker" /\ w_locked'[t]]_vars

\* The first register call came after a wake call and its waker is in the
\* cell.
C30_Witness ==
    \E c \in CallIds :
        /\ c > 1 /\ w_regs = {c}
        /\ w_cell = Some(c) /\ w_state = WAITING /\ Quiescent
        /\ w_woken[c] = 0

\* C31: AtomicWaker lock release: whenever no register or wake call is in
\* flight the state is WAITING (neither bit stays set), and the state never
\* holds anything but the two bits.
C31_WaitingWhenQuiescent ==
    /\ w_state \in {WAITING, REGISTERING, WAKING, REGISTERING + WAKING}
    /\ Quiescent => (w_state = WAITING /\ \A t \in Threads : ~w_locked[t])

\* All calls have returned after a registration was woken and every call
\* the threads may make was made.
C31_Witness ==
    /\ Quiescent /\ w_state = WAITING
    /\ w_next = MaxCalls + 1
    /\ Cardinality(w_regs) >= 2
    /\ \E c \in w_regs : w_woken[c] = 1

\* C32: the debug assertions hold: a failed release compare-exchange of
\* register observed REGISTERING|WAKING; a take_waker that does not obtain
\* the lock found REGISTERING, REGISTERING|WAKING or WAKING; a register
\* that found neither WAITING nor WAKING found REGISTERING or
\* REGISTERING|WAKING.
C32_DebugAssertionsHold ==
    [][/\ \A t \in Threads :
            (w_pc[t] = "release" /\ w_pc'[t] = "take")
               => (w_state = REGISTERING + WAKING
                     /\ w_loc'[t].seen = REGISTERING + WAKING)
       /\ (w_next' # w_next /\ w_regs' = w_regs /\ w_pc' = w_pc)
            => w_state \in {REGISTERING, REGISTERING + WAKING, WAKING}
       /\ (w_regs' # w_regs /\ w_pc' = w_pc /\ w_woken' = w_woken)
            => w_state \in {REGISTERING, REGISTERING + WAKING}]_vars

\* A release compare-exchange has failed while a second wake call found the
\* WAKING bit already set.
C32_Witness ==
    \E t \in Threads :
        /\ w_pc[t] = "take" /\ w_loc[t].seen = REGISTERING + WAKING
        /\ w_next >= w_loc[t].call + 3
        /\ \A u \in Threads \ {t} : w_pc[u] = "idle"

GrowthStep == oom' # oom /\ oom'.op = "handle_oom" /\ oom'.ok

\* C34: heap growth terminates: every successful handle_oom makes the
\* committed span larger and leaves it below the ceiling, which does not move,
\* so that a behaviour has finitely many successful growths; with the span at
\* the ceiling every handle_oom call is an error.
C34_GrowthTerminates ==
    /\ [][GrowthStep => /\ SpanSize(heap') > SpanSize(heap)
                        /\ heap'.base = heap.base
                        /\ heap'.acme <= heap_max
                        /\ heap_max' = heap_max]_vars
    /\ [][(oom'.op = "handle_oom" /\ oom'.old = heap /\ heap.acme >= heap_max) => ~oom'.ok]_vars
    /\ <>[][~GrowthStep]_vars

\* The heap grew twice or more up to its ceiling, and the call after that failed.
C34_Witness ==
    /\ heap_pc = "ready" /\ heap.acme = heap_max /\ SpanSize(heap) >= 4 * PAGE_SIZE
    /\ oom.op = "handle_oom" /\ ~oom.ok /\ oom.old = heap

\* C35 as stated: whenever GLOBAL_PANIC_COUNT is zero every CPU's
\* LOCAL_PANIC_COUNT is zero; GLOBAL_PANIC_COUNT is never decremented at zero;
\* panicking() returns true on a CPU between the start of a panic and its catch.
C35_GlobalZeroMeansLocalZero ==
    /\ [](p_global = 0 => \A c \in Cpus : p_local[c].count = 0)
    /\ [][p_global' # p_global => p_global > 0]_vars
    /\ [](\A c \in Cpus :
            (IsSome(p_query) /\ Unwrap(p_query).cpu = c /\ p_depth[c] > 0 /\ p_pc[c] # "aborted")
                => Unwrap(p_query).ret)

\* The pairs registered so far.
Registered == 1..(d_next - 1)

\* The pairs whose destructor was invoked.
Ran == {d_ran[i] : i \in DOMAIN d_ran}

\* C36: run invokes every registered pair exactly once, the most recently
\* registered of the pairs not yet run first, pairs registered by a running
\* destructor included; when it returns the list is empty and every pair was
\* run; no destructor is invoked while DTORS is borrowed and no register call
\* aborts; run, once called, returns.
C36_RunsEveryDestructorOnce ==
    /\ [](/\ ~d_aborted
          /\ d_pc = "call" => ~d_borrowed
          /\ Cardinality(Ran) = Len(d_ran)
          /\ Ran \cup {d_list[i] : i \in DOMAIN d_list} = Registered
          /\ d_pc = "done" => (d_list = <<>> /\ Ran = Registered))
    /\ [][d_ran' # d_ran =>
            /\ Len(d_ran') = Len(d_ran) + 1
            /\ \A i \in Registered \ Ran : i <= d_ran'[Len(d_ran')]]_vars
    /\ (d_pc # "idle") ~> (d_pc = "done")

\* run returned after four destructors, one of which was registered by a
\* destructor while run was in progress.
C36_Witness ==
    /\ d_pc = "done" /\ Len(d_ran) = MaxDtors
    /\ \E i \in 1..(Len(d_ran) - 1) : d_ran[i] < d_ran[i + 1]

\* C37 as stated: a kernel-heap mapping step (init or a growth) asks the frame
\* allocator for as many frames as it maps pages: size / PAGE_SIZE frames for a
\* span of size bytes.
C37_FramesRequestedArePages ==
    (oom.op \in {"init", "handle_oom"} /\ oom.ensure /\ IsSome(oom.map_req)) =>
        oom.frames_req = (Unwrap(oom.map_req).end - Unwrap(oom.map_req).start) \div PAGE_SIZE

\* C38: when the mapping of the new heap pages fails inside handle_oom (the
\* frame allocation, map_range or the flush returns an error), handle_oom
\* returns an error, the committed span and the ceiling are what they were and
\* the underlying allocator is handed nothing.
C38_FailedGrowthKeepsSpan ==
    [][(oom' # oom /\ oom'.op = "handle_oom" /\ oom'.ensure /\ oom'.err # ""
          /\ heap_pc' # "panicked") =>
          /\ ~oom'.ok
          /\ heap' = heap
          /\ heap_max' = heap_max
          /\ claimed' = claimed]_vars

\* A growth of a heap of two pages or more failed at the flush, after its
\* pages were mapped.
C38_Witness ==
    /\ oom.op = "handle_oom" /\ ~oom.ok /\ oom.err = "Sbi" /\ oom.written # {}
    /\ heap = oom.old /\ claimed = oom.old /\ SpanSize(heap) >= 2 * PAGE_SIZE

\* C39 as stated: when make_executable or make_readonly fails (update_flags
\* or the flush returns an error) the permissions recorded for the region are
\* the same as before the call.
C39_FailedProtectKeepsPermissions ==
    [][(mm_result'.op \in {"make_executable", "make_readonly"} /\ ~mm_result'.ok) =>
          /\ DOMAIN regions' = DOMAIN regions
          /\ \A i \in DOMAIN regions : regions'[i].perms = regions[i].perms]_vars

\* C40 as stated: during the raw copy of copy_from_userspace and of
\* copy_to_userspace the address space of the handle is the one active on the
\* calling CPU, whichever was active before the call.
C40_CopyInOwnAddressSpace ==
    (copy_result.op \in {"copy_from_userspace", "copy_to_userspace"}
        /\ IsSome(copy_result.active)) =>
            Unwrap(copy_result.active) = UserAsid

\* The page addresses of a span.
PagesOf(s) == {a \in {p * PAGE_SIZE : p \in 0..(HeapStartPage + MaxHeapPages + MaxLayoutPages + 1)} :
                 s.base <= a /\ a < s.acme}

\* C5: after init and any number of handle_oom calls, the end of the committed
\* span is at most the ceiling (oom_handler.max); init is given a range of at
\* least one page.
C5_EndBelowCeiling == heap_pc # "uninit" => heap.acme <= heap_max

\* A growth was clamped: the handler asked for more than the ceiling allows
\* and the committed span now ends at the ceiling.
C5_Witness ==
    /\ heap_pc = "ready" /\ oom.op = "handle_oom" /\ oom.ok
    /\ heap.acme = heap_max
    /\ oom.old.acme + MaxOf(SpanSize(oom.old), oom.layout) > heap_max

\* C6: the committed span only grows: across every step (a successful or a
\* failed handle_oom) the new committed span contains the previous one.
C6_SpanOnlyGrows ==
    [][heap_pc = "ready" => (heap'.base <= heap.base /\ heap.acme <= heap'.acme)]_vars

\* A successful growth and, in another call, a failed one, have happened.
C6_Witness ==
    /\ heap_pc = "ready" /\ oom.op = "handle_oom" /\ ~oom.ok
    /\ SpanSize(heap) > PAGE_SIZE

\* The least multiple of PAGE_SIZE that is at least max(current size, requested size).
GrowthOf(old, layout) ==
    CHOOSE g \in {k * PAGE_SIZE : k \in 0..(MaxHeapPages + MaxLayoutPages + 1)} :
        /\ g >= SpanSize(old) /\ g >= layout
        /\ g - MaxOf(SpanSize(old), layout) < PAGE_SIZE

C8_NoGrowthIsError ==
    [][(oom'.op = "handle_oom" /\ SpanEq(oom'.new, oom'.old)) =>
          /\ ~oom'.ok
          /\ UNCHANGED <<heap_pc, heap, heap_max, claimed, kpt, ktables,
                         fa_used, fa_live, fences>>]_vars

\* handle_oom failed on a heap that has reached its ceiling.
C8_Witness ==
    /\ heap_pc = "ready" /\ oom.op = "handle_oom" /\ ~oom.ok /\ oom.err = "NoGrowth"
    /\ heap.acme = heap_max /\ SpanSize(heap) > PAGE_SIZE

\* C9: a heap growth maps exactly the pages of the new span that are not in
\* the old span, with READ|WRITE, and never a page of the committed span.
C9_MapsOnlyNewPages ==
    (oom.op = "handle_oom" /\ oom.ensure) =>
        /\ IsSome(oom.map_req) =>
              PagesOf(Span(Unwrap(oom.map_req).start, Unwrap(oom.map_req).end))
                  = PagesOf(oom.new) \ PagesOf(oom.old)
        /\ oom.written \cap PagesOf(oom.old) = {}
        /\ oom.ok =>
              /\ oom.written = PagesOf(oom.new) \ PagesOf(oom.old)
              /\ \A v \in oom.written : kpt[v].flags \ {"VALID"} = {"READ", "WRITE"}

\* A growth by more than one page succeeded.
C9_Witness ==
    /\ oom.op = "handle_oom" /\ oom.ok
    /\ Cardinality(oom.written) >= 2
    /\ PagesOf(oom.old) # {}

====
